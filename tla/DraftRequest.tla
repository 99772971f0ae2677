----------------------------- MODULE DraftRequest -----------------------------
(***************************************************************************)
(* A request for a draft from the user's description to its last event:     *)
(* the document type and the context of the draft are settled with the      *)
(* user (Clarification); a deep draft then searches the corpus for examples *)
(* (Retrieval), reads the structure contract, puts the examples into the    *)
(* prompt and is generated and streamed (DraftStream); a generic draft is   *)
(* streamed at once (internal/draft/highfreq_orchestrator.go, fewshot.go,   *)
(* c06_context.go, contract.go).                                            *)
(*                                                                         *)
(* The search can also be that of another caller, by identifier.            *)
(***************************************************************************)
EXTENDS DraftStream

CONSTANTS Doctypes, DeepDoctypes, Slots, MaxRounds, MaxScenes, MaxRequests,
          Chunks, TopK, ScarceThreshold, MaxRanks,
          MinimumExamples  \* fewer examples than this are called insufficient

ASSUME DeepDoctypesAssumption == DeepDoctypes \subseteq Doctypes
ASSUME BoundsAssumption ==
    {MaxRounds, MaxScenes, MaxRequests, TopK, ScarceThreshold, MaxRanks,
     MinimumExamples} \subseteq Nat

VARIABLES desk,      \* the workbench of the user
          requests,  \* what it has sent and not yet got an answer for
          search,    \* the search of the request
          plan       \* what prepareGeneration has assembled

Talk == INSTANCE Clarification
Search == INSTANCE Retrieval

all == <<vars, desk, requests, search, plan>>

NoPlan == [ready |-> FALSE, examples |-> <<>>, insufficient |-> FALSE]

RequestInit ==
    /\ Init
    /\ desk = Talk!Empty
    /\ requests = <<>>
    /\ search = Search!Unstarted
    /\ plan = NoPlan

Preparing == orchestrator.at = "preparing"

Drafting == search.exact = FALSE

HasContext == desk.phase = "handed over"

(* The user describes, chooses and answers.  A dialogue that is over is not *)
(* looked at again.                                                         *)
Dialogue ==
    /\ Talk!DeskNext
    /\ UNCHANGED <<vars, search, plan>>

(* ConsumeC06ScenarioContext and branchFor: each kind of draft takes the    *)
(* contexts that are meant for it and refuses the others.                   *)
ConsumeContext ==
    /\ desk.phase = "done"
    /\ desk' = [Talk!Empty EXCEPT !.phase = "handed over"]
    /\ requests' = <<>>
    /\ IF Talk!TargetCapability(desk.context.doctype) = branch
       THEN UNCHANGED vars
       ELSE Refuse
    /\ UNCHANGED <<search, plan>>

(* authorizeDraftCreate and NewHighFreqDraftRequest pass: SearchExamples. *)
SearchExamples ==
    /\ Preparing /\ HasContext /\ branch = "deep"
    /\ \/ \E gone \in SUBSET Chunks : Search!Begin(TRUE, FALSE, gone)
       \/ Search!Refuses(FALSE)
    /\ UNCHANGED <<vars, desk, requests, plan>>

(* Another caller's Search, by document number or organisation. *)
SearchByIdentifier ==
    /\ desk = Talk!Empty
    /\ desk' = [Talk!Empty EXCEPT !.phase = "unused"]
    /\ \/ \E intent \in BOOLEAN, gone \in SUBSET Chunks :
               Search!Begin(intent, TRUE, gone)
       \/ Search!Refuses(TRUE)
    /\ UNCHANGED <<vars, requests, plan>>

SearchGoesOn ==
    /\ \/ Search!Fails
       \/ Search!SearchHybrid
       \/ Search!SearchExact
       \/ Search!FilterVisibleHits
       \/ Search!Rerank
    /\ UNCHANGED <<vars, desk, requests, plan>>

(* selectFewShotExamples: no more than TopK, and none that is empty or of   *)
(* another document type.                                                   *)
Selected(hits, usable) ==
    LET kept == Search!Only(usable, hits)
    IN SubSeq(kept, 1, IF Len(kept) < TopK THEN Len(kept) ELSE TopK)

(* The structure contract is read; AssembleFewShotPrompt marks a shortage   *)
(* of examples that the search has seen or that it sees itself.             *)
AssemblePlan ==
    /\ Preparing /\ Drafting /\ ~plan.ready
    /\ search.at = "answered"
    /\ \E usable \in SUBSET Chunks :
           LET examples == Selected(search.hits, usable)
           IN plan' = [ready |-> TRUE, examples |-> examples,
                       insufficient |->
                           \/ search.insufficient
                           \/ MinimumExamples > 0
                                /\ Len(examples) < MinimumExamples]
    /\ UNCHANGED <<vars, desk, requests, search>>

(* The prompt is in the request to the model: only the mark is still used.  *)
StartDraft ==
    /\ HasContext /\ Drafting
    /\ search.at \in {"unstarted", "answered", "failed"}
    /\ Start
    /\ caller' # "refused" /\ branch = "deep" => plan.ready
    /\ UNCHANGED <<desk, requests>>
    /\ search' = Search!Unstarted
    /\ plan' = [ready |-> plan.ready, examples |-> <<>>,
                insufficient |-> plan.insufficient]

Kept(step) == step /\ UNCHANGED <<desk, requests, search, plan>>

RequestNext ==
    \/ Dialogue
    \/ ConsumeContext
    \/ SearchExamples
    \/ SearchByIdentifier
    \/ SearchGoesOn
    \/ AssemblePlan
    \/ StartDraft
    \/ Kept(ProviderStep)
    \/ Kept(GatewayStep)
    \/ Kept(OrchestratorStep)
    \/ Kept(CallerStep)
    \/ Kept(CallerCancels)

(***************************************************************************)
(* Goroutines run, a provider answers or its request fails in the end, and  *)
(* a caller that is there reads.  Nobody has to cancel.                     *)
(***************************************************************************)
RequestSpec ==
    /\ RequestInit /\ [][RequestNext]_all
    /\ Talk!DeskFairness /\ WF_all(ConsumeContext)
    /\ WF_all(SearchGoesOn) /\ WF_all(AssemblePlan) /\ WF_all(StartDraft)
    /\ WF_all(Kept(ProviderStep))
    /\ WF_all(Kept(GatewayStep))
    /\ WF_all(Kept(OrchestratorStep))
    /\ WF_all(Kept(CallerStep))

-----------------------------------------------------------------------------
(* What a user has answered is not asked for again and goes into the        *)
(* context, and the context is about the description and the document type  *)
(* on the screen, unless the user went on while a request was out: then a   *)
(* late answer may put back what the workbench showed before.               *)
AnswersAreKept ==
    ~desk.disturbed =>
        /\ desk.phase = "clarify" =>
               desk.answered \subseteq desk.step.filled \ {desk.step.asking}
        /\ desk.phase = "done" =>
               /\ desk.answered \subseteq desk.context.filled
               /\ desk.context.scene = desk.scene
               /\ desk.context.doctype = desk.doctype

(* A dialogue comes to its end, through failures and new descriptions,      *)
(* whatever slots are required and however the limit of rounds is changed   *)
(* on the way; only a user who went on while a request was out can be left  *)
(* with questions that lead nowhere.                                        *)
DialogueEnds ==
    <>(desk.disturbed \/ desk.phase \in {"done", "handed over", "unused"})

(* What was deleted before a search began is not among its answers and not  *)
(* among the examples of a prompt, however far the index lags behind.       *)
NoDeletedExample ==
    /\ search.at = "answered" => ToSet(search.hits) \cap search.gone = {}
    /\ ToSet(plan.examples) \cap search.gone = {}

(* A prompt with too few examples says so: when the search was left with    *)
(* fewer hits than its threshold, or the prompt with fewer examples than    *)
(* its minimum, each counted once, the draft is marked.  A hit that the     *)
(* re-ranking service named twice is the one thing that can hide a shortage.*)
ShortageIsMarked ==
    plan.ready /\ Preparing /\ ~search.repeated =>
        /\ Cardinality(ToSet(search.hits)) < ScarceThreshold
               => plan.insufficient
        /\ Cardinality(ToSet(plan.examples)) < MinimumExamples
               => plan.insufficient

=============================================================================
