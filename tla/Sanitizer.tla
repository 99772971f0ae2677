------------------------------- MODULE Sanitizer -------------------------------
(***************************************************************************)
(* What the desensitisation gateway does to a text                         *)
(* (internal/desensitization/gateway): the hits of the recognisers are     *)
(* merged (merge.go, processor.go), what is left of them is replaced by    *)
(* placeholders (placeholder.go), and the placeholders of the answer are   *)
(* replaced back, piece by piece as it arrives (tail_buffer.go).           *)
(*                                                                         *)
(* A text is a sequence of symbols.  A symbol is a tuple: a character, or  *)
(* the number of a placeholder with its type.  A piece of an answer comes  *)
(* out of a JSON string, so no character is cut in two.  What the          *)
(* recognisers find is any set of hits; the NER service is modelled by     *)
(* what validNERSpan lets through.                                         *)
(***************************************************************************)
EXTENDS Naturals, Sequences, FiniteSets, SequencesExt

CONSTANTS Characters,  \* the symbols of a text that are in no placeholder
          Texts,       \* the texts of a request
          MaxHits,     \* bound: hits of a request
          Answers,     \* the mappings of requests whose answers arrive
          Alphabet,    \* the symbols of an answer
          MaxAnswer,   \* bound: its length
          MaxDelta     \* bound: symbols of one delta

ASSUME SanitizerAssumption ==
    {MaxHits, MaxAnswer, MaxDelta} \subseteq Nat

VARIABLES phase,     \* recognising, merging, merging with NER, merged, applied; answering, ended
          text,      \* the text of the message
          hits,      \* what the recognisers found in it
          todo,      \* hits still to be merged, sorted
          merged,    \* MergeHits' slice
          mappings,  \* SanitizationResult.Mappings
          answer,    \* what has arrived of the answer
          tail,      \* placeholderTailBuffer.tail
          restored   \* what the caller got

sanitizerVars == <<phase, text, hits, todo, merged, mappings, answer, tail, restored>>

Start == <<"[">>  \* placeholderStart
End == <<"]">>    \* placeholderEnd
Types == {"secret", "amount", "person"}
Placeholder(type, n) == <<Start, <<type, n>>, End>>

Symbols == Characters \union {Start, End} \union (Types \X Nat)
Mappings == [placeholder : Seq(Symbols), original : Seq(Symbols), type : Types]

ASSUME SymbolsAssumption ==
    /\ \A c \in Characters : c # Start /\ c # End /\ c \notin Types \X Nat
    /\ Texts \subseteq Seq(Symbols) /\ Alphabet \subseteq Symbols

\* What was replaced in the request whose answer arrives was not like a placeholder.
ASSUME AnswersAssumption ==
    \A maps \in Answers :
      /\ maps \in Seq(Mappings)
      /\ \A i \in DOMAIN maps :
           /\ maps[i].original \in Seq(Characters) /\ maps[i].original # <<>>
           /\ \E type \in Types, n \in 1..Len(maps) : maps[i].placeholder = Placeholder(type, n)

-----------------------------------------------------------------------------
(* Hits.  An end is exclusive, positions count from 0. *)

Sources == {"blacklist", "regex", "dictionary", "ner"}
HitsIn(t) == {h \in [start : 0..Len(t), end : 0..Len(t), source : Sources] : h.start < h.end}

\* One entity type stands for those of a source; the dictionary and the NER
\* service both know persons.
Type(h) == CASE h.source = "blacklist" -> "secret"
             [] h.source = "regex" -> "amount"
             [] OTHER -> "person"

Priority(h) == CASE h.source = "blacklist" -> 4
                 [] h.source = "regex" -> 3
                 [] h.source = "dictionary" -> 2
                 [] h.source = "ner" -> 1

Length(h) == h.end - h.start
Overlaps(h, g) == h.start < g.end /\ g.start < h.end

\* The order of MergeHits, and that of its result.
Before(h, g) ==
    \/ h.start < g.start
    \/ h.start = g.start /\ Priority(h) > Priority(g)
    \/ h.start = g.start /\ Priority(h) = Priority(g) /\ Length(h) > Length(g)
ByStart(h, g) == h.start < g.start

\* Mutation: the longer hit wins, whatever found it.
LongerHit(candidate, existing) == Length(candidate) > Length(existing)

BetterHit(candidate, existing) ==
    \/ Priority(candidate) > Priority(existing)
    \/ Priority(candidate) = Priority(existing) /\ Length(candidate) > Length(existing)

-----------------------------------------------------------------------------
(* Placeholders. *)

\* strings.ReplaceAll.  The brackets of a placeholder stand at its ends only, so
\* its occurrences do not overlap and are replaced in any order.
EndsAt(t, n, old) == Len(old) <= n /\ SubSeq(t, n - Len(old) + 1, n) = old
Substitute(t, old, new) ==
    LET done[n \in 0..Len(t)] ==
          IF n = 0 THEN <<>>
          ELSE IF EndsAt(t, n, old) THEN done[n - Len(old)] \o new
          ELSE Append(done[n - 1], t[n])
    IN done[Len(t)]

\* One mapping after the other, in the whole text.
Restore(maps, t) ==
    LET done[i \in 0..Len(maps)] ==
          IF i = 0 THEN t
          ELSE Substitute(done[i - 1], maps[i].placeholder, maps[i].original)
    IN done[Len(maps)]

Of(type, maps) == {i \in DOMAIN maps : maps[i].type = type}
Known(type, original, maps) == {i \in Of(type, maps) : maps[i].original = original}

\* Mutation: every entity of a type gets the first placeholder of the type.
FirstMapping(type, original, maps) ==
    IF Of(type, maps) # {} THEN maps
    ELSE Append(maps, [placeholder |-> Placeholder(type, 1), original |-> original, type |-> type])

\* The same text of the same type has one placeholder.
WithMapping(type, original, maps) ==
    IF Known(type, original, maps) # {} THEN maps
    ELSE Append(maps, [placeholder |-> Placeholder(type, Cardinality(Of(type, maps)) + 1),
                       original |-> original, type |-> type])

\* ApplyWithMessageContext: a hit that begins before the last one ended is
\* skipped.
ApplyHit(done, h) ==
    IF h.start < done.cursor THEN done
    ELSE LET original == SubSeq(text, h.start + 1, h.end)
             maps == WithMapping(Type(h), original, done.mappings)
             n == CHOOSE i \in Of(Type(h), maps) :
                    Known(Type(h), original, maps) # {} => maps[i].original = original
         IN [text |-> done.text \o SubSeq(text, done.cursor + 1, h.start) \o maps[n].placeholder,
             cursor |-> h.end,
             mappings |-> maps]

Apply(sorted) ==
    LET after[i \in 0..Len(sorted)] ==
          IF i = 0 THEN [text |-> <<>>, cursor |-> 0, mappings |-> <<>>]
          ELSE ApplyHit(after[i - 1], sorted[i])
        done == after[Len(sorted)]
    IN [text |-> done.text \o SubSeq(text, done.cursor + 1, Len(text)), mappings |-> done.mappings]

-----------------------------------------------------------------------------
(* A request's text, and the answer to a request that has been sanitised.  *)

\* sort.SliceStable: ahead of s[k] are the elements less than it, and those
\* before it that it is not less than.
AheadOf(k, s, Less(_, _)) ==
    {j \in DOMAIN s : Less(s[j], s[k]) \/ (j < k /\ ~Less(s[k], s[j]))}
SliceStable(s, Less(_, _)) ==
    [i \in DOMAIN s |-> s[CHOOSE k \in DOMAIN s : Cardinality(AheadOf(k, s, Less)) = i - 1]]

Sort(S) == SliceStable(SetToSeq(S), Before)

Request ==
    /\ phase = "recognising"
    /\ text \in Texts
    /\ mappings = <<>>

Answer ==
    /\ phase = "answering"
    /\ text = <<>>
    /\ mappings \in Answers

SanitizerInit ==
    /\ Request \/ Answer
    /\ hits = {} /\ todo = <<>> /\ merged = <<>>
    /\ answer = <<>> /\ tail = <<>> /\ restored = <<>>

Answering == <<answer, tail, restored>>

\* What the expressions, the dictionary and the NER service find.
Recognize ==
    /\ phase = "recognising"
    /\ Cardinality(hits) < MaxHits
    /\ \E h \in HitsIn(text) : hits' = hits \union {h}
    /\ UNCHANGED <<phase, text, todo, merged, mappings, Answering>>

\* recognizeWithNER: what the expressions and the dictionary found is merged
\* without the hits of the NER service first.
Recognized ==
    /\ phase = "recognising"
    /\ phase' = "merging"
    /\ todo' = Sort({h \in hits : h.source # "ner"})
    /\ UNCHANGED <<text, hits, merged, mappings, Answering>>

\* The loop of MergeHits: a hit takes the place of the first one that it
\* overlaps if it is better, and is dropped if it is not.
Merge ==
    /\ phase \in {"merging", "mergingNER"}
    /\ todo # <<>>
    /\ LET h == Head(todo)
           overlapped == {i \in DOMAIN merged : Overlaps(h, merged[i])}
       IN merged' = IF overlapped = {} THEN Append(merged, h)
                    ELSE LET i == Min(overlapped) IN
                         IF BetterHit(h, merged[i]) THEN [merged EXCEPT ![i] = h] ELSE merged
    /\ todo' = Tail(todo)
    /\ UNCHANGED <<phase, text, hits, mappings, Answering>>

AddNER ==
    /\ phase = "merging"
    /\ todo = <<>>
    /\ todo' = Sort(ToSet(merged) \union {h \in hits : h.source = "ner"})
    /\ merged' = <<>>
    /\ phase' = "mergingNER"
    /\ UNCHANGED <<text, hits, mappings, Answering>>

ApplyPlaceholders ==
    /\ phase = "mergingNER"
    /\ todo = <<>>
    /\ merged' = SliceStable(merged, ByStart)
    /\ LET done == Apply(merged') IN
       /\ mappings' = done.mappings
       /\ answer' = done.text
    /\ phase' = "applied"
    /\ UNCHANGED <<text, hits, todo, tail, restored>>

-----------------------------------------------------------------------------
\* Mutation: what may be a placeholder is not waited for to its end.
SplitTailShort(t, longest) ==
    LET starts == {i \in DOMAIN t : t[i] = Start}
        start == IF starts = {} THEN Len(t) + 1 ELSE Max(starts)
        held == starts # {} /\ ~Contains(SubSeq(t, start, Len(t)), End)
                /\ Len(t) - start + 1 < longest - 1
    IN IF held THEN start - 1 ELSE Len(t)

\* splitPlaceholderTail: how much of the text is emitted.
SplitTail(t, longest) ==
    LET starts == {i \in DOMAIN t : t[i] = Start}
        start == IF starts = {} THEN Len(t) + 1 ELSE Max(starts)
        held == starts # {} /\ ~Contains(SubSeq(t, start, Len(t)), End)
                /\ longest # 0 /\ Len(t) - start + 1 <= longest
    IN IF held THEN start - 1 ELSE Len(t)

Longest == Max({Len(mappings[i].placeholder) : i \in DOMAIN mappings} \union {0})

Push(delta) ==
    /\ phase = "answering"
    /\ Len(answer) + Len(delta) <= MaxAnswer
    /\ answer' = answer \o delta
    /\ LET combined == tail \o delta
           n == SplitTail(combined, Longest)
       IN /\ restored' = restored \o Restore(mappings, SubSeq(combined, 1, n))
          /\ tail' = SubSeq(combined, n + 1, Len(combined))
    /\ UNCHANGED <<phase, text, hits, todo, merged, mappings>>

Flush ==
    /\ phase = "answering"
    /\ phase' = "ended"
    /\ restored' = restored \o Restore(mappings, tail)
    /\ tail' = <<>>
    /\ UNCHANGED <<text, hits, todo, merged, mappings, answer>>

SanitizerNext ==
    \/ Recognize \/ Recognized \/ Merge \/ AddNER \/ ApplyPlaceholders
    \/ \E n \in 1..MaxDelta : \E delta \in [1..n -> Alphabet] : Push(delta)
    \/ Flush

SanitizerSpec == SanitizerInit /\ [][SanitizerNext]_sanitizerVars

-----------------------------------------------------------------------------
Kept == ToSet(merged)

\* design.md of the gateway, D-2: the order of the sources.
Rank == [blacklist |-> 4, regex |-> 3, dictionary |-> 2, ner |-> 1]
Outranks(h, g) ==
    \/ Rank[h.source] > Rank[g.source]
    \/ Rank[h.source] = Rank[g.source] /\ Length(h) > Length(g)

\* Of two hits as good as each other the one that begins first wins.
Beats(h, g) == Outranks(h, g) \/ (~Outranks(g, h) /\ h.start < g.start)

\* Hits that beat all others that they overlap.
Unbeaten(group) ==
    \A h \in group : \A g \in hits \ group : Overlaps(h, g) => Beats(h, g)

(* No two merged hits overlap, and of hits that beat whatever else they    *)
(* overlap one at least is kept: a hit that beats all it overlaps, and one *)
(* of all hits that hang together.  Merging in two passes and comparing    *)
(* with one hit only loses none of them.  Of other hits nothing is said: a *)
(* hit that loses to one that is lost itself is lost, and its text stays   *)
(* as it was, although no kept hit overlaps it.                            *)
MergeKeepsTheUnbeaten ==
    phase = "applied" =>
      /\ \A i, j \in DOMAIN merged : i # j => ~Overlaps(merged[i], merged[j])
      /\ \A group \in (SUBSET hits) \ {{}} : Unbeaten(group) => group \intersect Kept # {}

(* What was replaced can be put back: restoring the sanitised text gives   *)
(* the text, whatever hits it had and whether they share a placeholder, as *)
(* long as nothing in it looks like a placeholder.                         *)
RestoreUndoesApply ==
    phase = "applied" /\ Start \notin ToSet(text) => Restore(mappings, answer) = text

(* However an answer is cut into pieces, what the caller has got, with     *)
(* what is held back, is what restoring the whole answer would give.       *)
PiecesRestoreTheWhole ==
    phase \in {"answering", "ended"} =>
      restored \o Restore(mappings, tail) = Restore(mappings, answer)
=============================================================================
