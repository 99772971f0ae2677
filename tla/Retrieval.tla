------------------------------ MODULE Retrieval ------------------------------
(***************************************************************************)
(* One search of the corpus (internal/rag/retrieval/service.go): hybrid     *)
(* recall from the index, exact recall by identifier, the filter of the     *)
(* authority, the re-ranking service, the scarcity mark.                    *)
(*                                                                         *)
(* A hit is the id of a chunk.  The index lags behind the database (see     *)
(* CorpusIndex), so that a recall may return any chunks; its own is_deleted *)
(* flag is false in every entry, since only live chunks are written to it.  *)
(* What the database holds is looked at twice, at different times: gone is  *)
(* what was deleted when the search began, and the filter keeps what is     *)
(* visible and live when it runs.                                           *)
(***************************************************************************)
EXTENDS Naturals, Sequences, SequencesExt

CONSTANTS
    Chunks,           \* chunk ids
    TopK,             \* hits asked of each recall
    ScarceThreshold,  \* fewer hits than this are called insufficient
    MaxRanks          \* bound: results of the re-ranking service

VARIABLE search

(* hits without repetition, as a recall returns them *)
Recalls ==
    {hits \in BoundedSeq(Chunks, TopK) : IsInjective(hits)}

Unstarted == [at |-> "unstarted", intent |-> FALSE, exact |-> FALSE,
              gone |-> {}, hits |-> <<>>, repeated |-> FALSE,
              degraded |-> FALSE, insufficient |-> FALSE]

At(place) == search.at = place

GoesTo(place) == search' = [search EXCEPT !.at = place]

\* The hits that are kept, in their order.
Only(kept, hits) ==
    LET first[n \in 0 .. Len(hits)] ==
            IF n = 0 THEN <<>>
            ELSE IF hits[n] \in kept THEN Append(first[n - 1], hits[n])
            ELSE first[n - 1]
    IN first[Len(hits)]

\* appendUnique
AppendUnique(existing, incoming) ==
    existing \o Only(Chunks \ ToSet(existing), incoming)

(* The hits the service ranked, in its order, then those it did not name.   *)
(* Nothing keeps it from naming a hit twice.                                *)
Reranked(hits, ranks) ==
    LET ranked == [i \in 1 .. Len(ranks) |-> hits[ranks[i]]]
    IN ranked \o Only(Chunks \ ToSet(ranked), hits)

(* A plausible slip: only an empty answer is insufficient. *)
InsufficientIfNone(hits) == ScarceThreshold > 0 /\ hits = <<>>

Insufficient(hits) == ScarceThreshold > 0 /\ Len(hits) < ScarceThreshold

-----------------------------------------------------------------------------
(* authorize, resultFilter and backendFilter pass. *)
Begin(intent, exact, gone) ==
    /\ At("unstarted")
    /\ search' = [search EXCEPT !.at = "recalling", !.intent = intent,
                                !.exact = exact, !.gone = gone]

(* One of them does not. *)
Refuses(exact) ==
    /\ At("unstarted")
    /\ search' = [search EXCEPT !.at = "failed", !.exact = exact]

(* A recall or the filter fails. *)
Fails ==
    /\ search.at \in {"recalling", "looking up", "filtering"}
    /\ GoesTo("failed")

SearchHybrid ==
    /\ At("recalling")
    /\ IF search.intent
       THEN \E hits \in Recalls :
                search' = [search EXCEPT !.at = "looking up", !.hits = hits]
       ELSE GoesTo("looking up")

SearchExact ==
    /\ At("looking up")
    /\ IF search.exact
       THEN \E hits \in Recalls :
                search' = [search EXCEPT !.at = "filtering",
                                         !.hits = AppendUnique(@, hits)]
       ELSE GoesTo("filtering")

(* A plausible slip: the filter of the index is thought to be enough. *)
FilterNothing ==
    /\ At("filtering")
    /\ GoesTo("ranking")

(* FilterVisibleHits, the authority: what is visible and live by now. *)
FilterVisibleHits ==
    /\ At("filtering")
    /\ \E visible \in SUBSET (Chunks \ search.gone) :
           search' = [search EXCEPT
               !.at = "ranking",
               !.hits = Only(visible, @)]

Answer(hits, repeated, degraded) ==
    search' = [search EXCEPT !.at = "answered", !.hits = hits,
                             !.repeated = repeated, !.degraded = degraded,
                             !.insufficient = Insufficient(hits)]

(* Only several hits of a search with an intent are ranked; when the        *)
(* service is not available the order of the recall stays.                  *)
Rerank ==
    /\ At("ranking")
    /\ IF search.intent /\ Len(search.hits) > 1
       THEN \/ \E ranks \in BoundedSeq(1 .. Len(search.hits), MaxRanks) :
                   /\ ranks # <<>>
                   /\ Answer(Reranked(search.hits, ranks),
                             ~IsInjective(ranks), FALSE)
            \/ Answer(search.hits, FALSE, TRUE)
            \/ GoesTo("failed")
       ELSE Answer(search.hits, FALSE, FALSE)

=============================================================================
