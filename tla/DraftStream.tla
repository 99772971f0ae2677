------------------------------ MODULE DraftStream ------------------------------
(***************************************************************************)
(* A streamed draft, from the provider to the caller: the goroutine of the *)
(* provider client (internal/llm/direct/client.go, litellm/client.go), the *)
(* one of the desensitisation gateway (gateway/decorator.go) and the one   *)
(* of the high-frequency orchestrator (internal/draft/                     *)
(* highfreq_orchestrator.go).  A generic draft (internal/draft/contract.go)*)
(* hands the caller the channel of the gateway itself.                     *)
(*                                                                         *)
(* The channels of the first two are unbuffered: a send and its receive    *)
(* are one step, and a sender waits, without looking at the context, until *)
(* somebody receives.  The orchestrator's holds one event.                 *)
(*                                                                         *)
(* A delta stands for one piece of the text, numbered in the order the     *)
(* provider wrote it.  Which pieces the tail buffer of the gateway holds   *)
(* back depends on placeholders, which are not looked at here.             *)
(***************************************************************************)
EXTENDS Naturals, Sequences, SequencesExt

CONSTANT MaxDeltas  \* bound: the pieces of a draft

ASSUME MaxDeltasAssumption == MaxDeltas \in Nat \ {0}

VARIABLES branch,        \* deep draft (orchestrator) or generic one
          route,         \* public, private, or moved to the private network
          provider,      \* its goroutine: what it has to send, what then
          read,          \* pieces read from the network
          gateway,       \* its goroutine, likewise
          tail,          \* what the placeholder buffer holds back
          orchestrator,  \* where its goroutine is, and the event it has
          out,           \* the channel the caller reads
          cancelled,     \* the context of the call
          caller,        \* reads, or went away after cancelling
          received,      \* what it read
          draft          \* history: the text of that, put together

vars == <<branch, route, provider, read, gateway, tail, orchestrator, out,
          cancelled, caller, received, draft>>

Pieces(from, to) == [i \in 1..(to - from) |-> from + i]
Texts == {Pieces(from, to) : from, to \in 0..MaxDeltas}
Types == {"delta", "done", "error"}
Events == [type : Types, text : Texts, metadata : BOOLEAN]

Delta(text) == [type |-> "delta", text |-> text, metadata |-> FALSE]
Done == [type |-> "done", text |-> <<>>, metadata |-> FALSE]
Error == [type |-> "error", text |-> <<>>, metadata |-> FALSE]

\* isTerminalStreamEvent
IsTerminal(e) == e.type \in {"done", "error"}

WithMetadata(e) == [type |-> e.type, text |-> e.text, metadata |-> TRUE]

\* A goroutine that sends: the events before it goes on, and how it goes on.
Sender(events, then) == [out |-> events, then |-> then]
Returned(sender) == sender = Sender(<<>>, "return")

Init ==
    /\ branch \in {"deep", "generic"}
    /\ route \in {"public", "private", "moved"}
    /\ provider = Sender(<<>>, "return")
    /\ read = 0
    /\ gateway = Sender(<<>>, "return")
    /\ tail = <<>>
    /\ orchestrator = [at |-> "preparing", event |-> Done, first |-> TRUE]
    /\ out = <<>>
    /\ cancelled = FALSE
    /\ caller = "waiting"
    /\ received = <<>>
    /\ draft = <<>>

OrchestratorGoes(at, event, first) ==
    orchestrator' = [at |-> at, event |-> event, first |-> first]

-----------------------------------------------------------------------------
(* StreamDraft, up to the goroutines. *)

\* prepareGeneration refuses (no permission, a context of the other branch,
\* no examples or no contract to be had), or for a generic draft the request
\* cannot be built or opened.
Refuse ==
    /\ orchestrator.at = "preparing"
    /\ OrchestratorGoes("refused", Done, TRUE)
    /\ caller' = "refused"
    /\ UNCHANGED <<branch, route, provider, read, gateway, tail, out, cancelled, received, draft>>

\* The gateway or the router cannot open the stream: one error event.
OpenFails ==
    /\ orchestrator.at = "preparing"
    /\ branch = "deep"
    /\ OrchestratorGoes("returned", Done, FALSE)
    /\ out' = <<WithMetadata(Error)>>
    /\ caller' = "reading"
    /\ UNCHANGED <<branch, route, provider, read, gateway, tail, cancelled, received, draft>>

\* The provider client reads the answer, or has an error to report in a
\* channel of its own, with no goroutine behind it (singleEvent).
Open ==
    /\ orchestrator.at = "preparing"
    /\ provider' \in {Sender(<<>>, "read"), Sender(<<Error>>, "return")}
    /\ gateway' = Sender(<<>>, "receive")
    /\ OrchestratorGoes(IF branch = "deep" THEN "top" ELSE "absent", Done, TRUE)
    /\ caller' = "reading"
    /\ UNCHANGED <<branch, route, read, tail, out, cancelled, received, draft>>

-----------------------------------------------------------------------------
(* The provider client: streamOpenAI, streamAnthropic, parseStream. *)

Reads(events, then) ==
    /\ provider = Sender(<<>>, "read")
    /\ provider' = Sender(events, then)
    /\ UNCHANGED <<branch, route, gateway, tail, orchestrator, out, cancelled, caller, received, draft>>

ReadDelta ==
    /\ read < MaxDeltas
    /\ read' = read + 1
    /\ Reads(<<Delta(<<read + 1>>)>>, "read")

\* The chunk with the finish reason may carry a last piece.
ReadFinish ==
    \/ /\ read < MaxDeltas
       /\ read' = read + 1
       /\ Reads(<<Delta(<<read + 1>>), Done>>, "return")
    \/ /\ UNCHANGED read
       /\ Reads(<<Done>>, "return")

\* A failed or cancelled request, or an answer that ends without a finish.
ReadFails ==
    /\ UNCHANGED read
    /\ Reads(<<Error>>, "return")

-----------------------------------------------------------------------------
(* The goroutine of Decorator.Stream. *)

\* Flush before an event.
Flush(event) == IF tail = <<>> THEN <<event>> ELSE <<Delta(tail), event>>

\* Push holds back an end of the text only where there are placeholders.
Held(text) == IF route = "public"
              THEN {k \in 0..Len(text) : TRUE}
              ELSE {Len(text)}

\* Mutation: the tail is replaced, not continued.
ForwardDeltaAlone(e) ==
    /\ e.type = "delta"
    /\ \E k \in Held(e.text) :
        /\ gateway' = Sender(<<Delta(SubSeq(e.text, 1, k))>>, "receive")
        /\ tail' = SubSeq(e.text, k + 1, Len(e.text))

ForwardDelta(e) ==
    /\ e.type = "delta"
    /\ LET text == tail \o e.text IN
       \E k \in Held(text) :
        /\ gateway' = Sender(<<Delta(SubSeq(text, 1, k))>>, "receive")
        /\ tail' = SubSeq(text, k + 1, Len(text))

\* Mutation: what is held back waits for the end of the channel.
ForwardDoneLater(e) ==
    /\ e.type = "done"
    /\ gateway' = Sender(<<e>>, "receive")
    /\ UNCHANGED tail

ForwardDone(e) ==
    /\ e.type = "done"
    /\ gateway' = Sender(Flush(e), "receive")
    /\ tail' = <<>>

\* The failure of a call that was moved to the private network is audited;
\* when that fails too the goroutine ends after an error of its own.
ForwardError(e) ==
    /\ e.type = "error"
    /\ gateway' \in {Sender(<<e>>, "receive")} \union
                    (IF route = "moved" THEN {Sender(<<Error>>, "return")} ELSE {})
    /\ UNCHANGED tail

GatewayReceives ==
    /\ gateway = Sender(<<>>, "receive")
    /\ provider.out # <<>>
    /\ LET e == Head(provider.out) IN
        ForwardDelta(e) \/ ForwardDone(e) \/ ForwardError(e)
    /\ provider' = Sender(Tail(provider.out), provider.then)
    /\ UNCHANGED <<branch, route, read, orchestrator, out, cancelled, caller, received, draft>>

\* The provider's channel is closed: what is held back is a delta, whatever
\* was forwarded before.
GatewayEnds ==
    /\ gateway = Sender(<<>>, "receive")
    /\ Returned(provider)
    /\ gateway' = Sender(IF tail = <<>> THEN <<>> ELSE <<Delta(tail)>>, "return")
    /\ tail' = <<>>
    /\ UNCHANGED <<branch, route, provider, read, orchestrator, out, cancelled, caller, received, draft>>

-----------------------------------------------------------------------------
(* The goroutine of appendHighFreqStreamMetadata. *)

OnlyOrchestrator ==
    UNCHANGED <<branch, route, provider, read, tail, cancelled, caller, received, draft>>

\* The check at the top of the loop.
LoopTop ==
    /\ orchestrator.at = "top"
    /\ OrchestratorGoes(IF cancelled THEN "cancelling" ELSE "waiting", Done, orchestrator.first)
    /\ UNCHANGED <<gateway, out>>
    /\ OnlyOrchestrator

\* The first select, and the one at the send: ctx.Done.
SeesCancel ==
    /\ orchestrator.at \in {"waiting", "sending"}
    /\ cancelled
    /\ OrchestratorGoes("cancelling", Done, orchestrator.first)
    /\ UNCHANGED <<gateway, out>>
    /\ OnlyOrchestrator

\* The gateway's channel yields an event, or is closed.
OrchestratorReceives ==
    /\ orchestrator.at = "waiting"
    /\ gateway.out # <<>> \/ Returned(gateway)
    /\ IF gateway.out # <<>>
       THEN /\ OrchestratorGoes("received", Head(gateway.out), orchestrator.first)
            /\ gateway' = Sender(Tail(gateway.out), gateway.then)
       ELSE /\ OrchestratorGoes(IF cancelled THEN "cancelling" ELSE "returned", Done, FALSE)
            /\ UNCHANGED gateway
    /\ UNCHANGED out
    /\ OnlyOrchestrator

\* wrapHighFreqStreamEvent
Wrap ==
    /\ orchestrator.at = "received"
    /\ LET e == orchestrator.event IN
       IF cancelled
       THEN OrchestratorGoes("cancelling", Done, orchestrator.first)
       ELSE OrchestratorGoes("sending",
                IF orchestrator.first \/ IsTerminal(e) THEN WithMetadata(e) ELSE e,
                FALSE)
    /\ UNCHANGED <<gateway, out>>
    /\ OnlyOrchestrator

\* Mutation: the loop goes on after the terminal event.
SendAndGoOn ==
    /\ orchestrator.at = "sending"
    /\ out = <<>>
    /\ out' = <<orchestrator.event>>
    /\ OrchestratorGoes("top", Done, FALSE)
    /\ UNCHANGED gateway
    /\ OnlyOrchestrator

Send ==
    /\ orchestrator.at = "sending"
    /\ out = <<>>
    /\ out' = <<orchestrator.event>>
    /\ OrchestratorGoes(IF IsTerminal(orchestrator.event) THEN "returned" ELSE "top", Done, FALSE)
    /\ UNCHANGED gateway
    /\ OnlyOrchestrator

\* highFreqCanceledStreamEvent
Canceled == WithMetadata(Error)

\* Mutation: the event waits for room that nobody makes.
CancelWaiting ==
    /\ orchestrator.at = "cancelling"
    /\ out = <<>>
    /\ out' = <<Canceled>>
    /\ OrchestratorGoes("returned", Done, FALSE)
    /\ UNCHANGED gateway
    /\ OnlyOrchestrator

\* Mutation: the cancellation says nothing of the draft.
CancelBare ==
    /\ orchestrator.at = "cancelling"
    /\ \/ /\ out = <<>>
          /\ out' = <<Error>>
          /\ OrchestratorGoes("returned", Done, FALSE)
       \/ /\ out # <<>>
          /\ out' = <<>>
          /\ UNCHANGED orchestrator
    /\ UNCHANGED gateway
    /\ OnlyOrchestrator

\* sendHighFreqCancellationEvent: an event nobody read makes room.
Cancel ==
    /\ orchestrator.at = "cancelling"
    /\ \/ /\ out = <<>>
          /\ out' = <<Canceled>>
          /\ OrchestratorGoes("returned", Done, FALSE)
       \/ /\ out # <<>>
          /\ out' = <<>>
          /\ UNCHANGED orchestrator
    /\ UNCHANGED gateway
    /\ OnlyOrchestrator

-----------------------------------------------------------------------------
(* The caller. *)

Read ==
    /\ caller = "reading"
    /\ out # <<>>
    /\ received' = Append(received, Head(out))
    /\ draft' = draft \o Head(out).text
    /\ out' = Tail(out)
    /\ UNCHANGED <<branch, route, provider, read, gateway, tail, orchestrator, cancelled, caller>>

\* The caller of a generic draft receives from the gateway.
ReadFromGateway ==
    /\ caller = "reading"
    /\ orchestrator.at = "absent"
    /\ gateway.out # <<>>
    /\ received' = Append(received, Head(gateway.out))
    /\ draft' = draft \o Head(gateway.out).text
    /\ gateway' = Sender(Tail(gateway.out), gateway.then)
    /\ UNCHANGED <<branch, route, provider, read, tail, orchestrator, out, cancelled, caller>>

\* A user cancels and may read on; a connection that breaks does not.
CallerCancels ==
    /\ caller = "reading"
    /\ ~cancelled
    /\ cancelled' = TRUE
    /\ caller' \in {"reading", "gone"}
    /\ UNCHANGED <<branch, route, provider, read, gateway, tail, orchestrator, out, received, draft>>

-----------------------------------------------------------------------------
ProviderStep == ReadDelta \/ ReadFinish \/ ReadFails
GatewayStep == GatewayReceives \/ GatewayEnds
OrchestratorStep ==
    LoopTop \/ SeesCancel \/ OrchestratorReceives \/ Wrap \/ Send \/ Cancel
CallerStep == Read \/ ReadFromGateway
Start == Refuse \/ OpenFails \/ Open

Next == Start \/ ProviderStep \/ GatewayStep \/ OrchestratorStep \/ CallerStep \/ CallerCancels

Spec == Init /\ [][Next]_vars

-----------------------------------------------------------------------------
Written == Pieces(0, read)

(* The variables keep their types. *)
TypeOK ==
    /\ branch \in {"deep", "generic"}
    /\ route \in {"public", "private", "moved"}
    /\ provider.out \in BoundedSeq(Events, 2) /\ provider.then \in {"read", "return"}
    /\ read \in 0..MaxDeltas
    /\ gateway.out \in BoundedSeq(Events, 2) /\ gateway.then \in {"receive", "return"}
    /\ tail \in Texts
    /\ orchestrator \in
         [at : {"preparing", "refused", "absent", "top", "waiting", "received",
                "sending", "cancelling", "returned"},
          event : Events, first : BOOLEAN]
    /\ out \in BoundedSeq(Events, 1)
    /\ cancelled \in BOOLEAN
    /\ caller \in {"waiting", "refused", "reading", "gone"}
    /\ received \in Seq(Events)
    /\ draft \in Texts

(* A draft is never cut without a word and never finished twice: the caller *)
(* of a deep draft gets at most one terminal event and nothing after it,    *)
(* and when its channel is closed and empty it has got one, although the    *)
(* provider, the gateway's audit, the end of a channel and a cancellation   *)
(* that empties the channel all race for it.                                *)
ExactlyOneTerminalEvent ==
    branch = "deep" =>
      LET events == received \o out IN
      /\ \A i \in 1..(Len(events) - 1) : ~IsTerminal(events[i])
      /\ orchestrator.at = "returned" =>
           events # <<>> /\ IsTerminal(events[Len(events)])

(* What a caller reads is the draft in order and without a gap, and when it *)
(* reads `done' it has read all of it, whatever the buffer held back on the *)
(* way and whatever a cancellation threw away.                              *)
CompleteWhenDone ==
    /\ IsPrefix(draft, Written)
    /\ \A i \in 1..Len(received) :
         received[i].type = "done" => draft = Written

(* The first event a caller sees says which draft it belongs to, be it the  *)
(* cancellation that took the place of the first event.                     *)
FirstEventHasMetadata ==
    branch = "deep" /\ received # <<>> => received[1].metadata

(* Who is left behind.  A provider always finds the gateway there to take  *)
(* what it sends, even where the gateway ends after a failed audit, for an  *)
(* error is the last event of a provider.  The gateway waits for a receiver *)
(* that has gone only when the caller cancelled, or when it still held text *)
(* back as it forwarded an error.                                           *)
LeftBehindOnlyWhen ==
    /\ provider.out # <<>> => ~Returned(gateway)
    /\ gateway.out # <<>> /\ orchestrator.at = "returned" /\ ~cancelled =>
         /\ route = "public"
         /\ gateway.then = "return"
         /\ Last(received \o out).type = "error"

(* A caller that cancels is not kept waiting: its channel is closed soon    *)
(* after, with or without anybody reading it.                               *)
CancellationIsAnswered ==
    cancelled /\ branch = "deep" ~> orchestrator.at = "returned"

=============================================================================
