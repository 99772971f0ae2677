-------------------------- MODULE DraftRequestProofs --------------------------
(* Theorems about a draft from the description to the last event, for any   *)
(* length of the draft, any document types, slots and corpus.               *)
EXTENDS DraftRequest, SequenceTheorems, TLAPS, FiniteSetTheorems, WellFoundedInduction

(* Whatever leads to it, what is streamed is a stream: every step of a      *)
(* request is a step of DraftStream, or does not touch the stream.          *)
THEOREM RequestIsAStream == RequestSpec => Spec
<1>1. RequestInit => Init
  BY DEF RequestInit
<1>2. [RequestNext]_all => [Next]_vars
  <2> SUFFICES ASSUME [RequestNext]_all
               PROVE  [Next]_vars
    OBVIOUS
  <2>1. CASE UNCHANGED all
    BY <2>1 DEF all
  <2>2. CASE Dialogue \/ SearchExamples \/ SearchByIdentifier \/ SearchGoesOn \/ AssemblePlan
    BY <2>2 DEF Dialogue, SearchExamples, SearchByIdentifier, SearchGoesOn, AssemblePlan
  <2>3. CASE ConsumeContext
    BY <2>3 DEF ConsumeContext, Next, Start
  <2>4. CASE StartDraft
    BY <2>4 DEF StartDraft, Next
  <2>5. CASE \/ Kept(ProviderStep) \/ Kept(GatewayStep) \/ Kept(OrchestratorStep)
             \/ Kept(CallerStep) \/ Kept(CallerCancels)
    BY <2>5 DEF Kept, Next
  <2> QED
    BY <2>1, <2>2, <2>3, <2>4, <2>5 DEF RequestNext
<1> QED
  BY <1>1, <1>2, PTL DEF RequestSpec, Spec

-----------------------------------------------------------------------------
(***************************************************************************)
(* What the goroutines have to send, and where the terminal event of the   *)
(* stream is.                                                              *)
(***************************************************************************)
StreamEvents == {e \in [type : Types, text : Seq(Nat), metadata : BOOLEAN] :
                   IsTerminal(e) => e.text = <<>>}

\* At most two events, of which the second is the terminal one.
Sendable(events) ==
    /\ events \in Seq(StreamEvents) /\ Len(events) <= 2
    /\ Len(events) = 2 => ~IsTerminal(events[1]) /\ IsTerminal(events[2])

EndsStream(events) == events # <<>> /\ IsTerminal(Last(events))

\* The provider's last event ends the stream.
ProviderSends ==
    /\ provider \in [out : Seq(StreamEvents), then : {"read", "return"}]
    /\ Sendable(provider.out)
    /\ provider.out # <<>> => (EndsStream(provider.out) <=> provider.then = "return")

\* The gateway ends after the provider.  Text it still holds back then is of
\* a public draft that failed.
GatewaySends ==
    /\ gateway \in [out : Seq(StreamEvents), then : {"receive", "return"}]
    /\ Sendable(gateway.out)
    /\ gateway.then = "return" \/ EndsStream(gateway.out) => Returned(provider)
    /\ EndsStream(gateway.out) /\ Last(gateway.out).type = "done" => tail = <<>>
    /\ tail # <<>> => route = "public"
    /\ gateway.then = "return" /\ gateway.out # <<>> /\ ~EndsStream(gateway.out) =>
         route = "public"

\* The orchestrator has still to receive a terminal event, or e was it.
Coming == ~Returned(provider) \/ EndsStream(gateway.out)
Ended(e) ==
    /\ Returned(provider)
    /\ gateway.out # <<>> => gateway.then = "return" /\ ~EndsStream(gateway.out)
    /\ tail # <<>> \/ gateway.out # <<>> => e.type = "error"

Places == {"preparing", "refused", "absent", "top", "waiting", "received", "sending",
           "cancelling", "returned"}
Orchestrating ==
    /\ orchestrator \in [at : Places, event : StreamEvents, first : BOOLEAN]
    /\ branch = "deep" => orchestrator.at # "absent"
    /\ branch # "deep" => orchestrator.at \in {"preparing", "refused", "absent"}
    /\ orchestrator.at \in {"preparing", "refused"} =>
         Returned(provider) /\ Returned(gateway) /\ tail = <<>>
    /\ orchestrator.at = "cancelling" => cancelled
    /\ orchestrator.at \in {"top", "waiting"} => Coming
    /\ orchestrator.at \in {"received", "sending"} =>
         IF IsTerminal(orchestrator.event) THEN Ended(orchestrator.event) ELSE Coming

\* What the caller of a deep draft has read and can read.
NoTerminal(events) == \A i \in 1..Len(events) : ~IsTerminal(events[i])
Passed(e) == IsTerminal(e) /\ (~cancelled => Ended(e))
Queue ==
    /\ out \in Seq(StreamEvents) /\ Len(out) <= 1 /\ received \in Seq(StreamEvents)
    /\ branch # "deep" => out = <<>>
    /\ orchestrator.at \in {"preparing", "refused"} => out = <<>> /\ received = <<>>
    /\ branch = "deep" =>
         IF orchestrator.at # "returned"
         THEN NoTerminal(received) /\ NoTerminal(out)
         ELSE \/ NoTerminal(received) /\ out # <<>> /\ Passed(out[1])
              \/ /\ out = <<>> /\ received # <<>> /\ Passed(Last(received))
                 /\ \A i \in 1..(Len(received) - 1) : ~IsTerminal(received[i])

\* The first event of a deep draft has the metadata.
First ==
    branch = "deep" =>
      /\ received # <<>> => received[1].metadata
      /\ received = <<>> /\ out # <<>> => out[1].metadata
      /\ received = <<>> /\ out = <<>> =>
           /\ orchestrator.at \in {"top", "waiting", "received"} => orchestrator.first
           /\ orchestrator.at = "sending" => orchestrator.event.metadata

(***************************************************************************)
(* Where the text of the draft is: from the caller back to the provider,   *)
(* each place has the pieces that follow those of the place before it.  A  *)
(* cancellation breaks the chain at the orchestrator, and only there.      *)
(***************************************************************************)
FirstText(events) == IF events = <<>> THEN <<>> ELSE events[1].text
InHand == IF orchestrator.at \in {"received", "sending"} THEN orchestrator.event.text ELSE <<>>

Unbroken == orchestrator.at \notin {"cancelling", "returned"}
Links(a, b, c, d, e) ==
    /\ draft = Pieces(0, a)
    /\ a <= b /\ FirstText(out) = Pieces(a, b)
    /\ Unbroken => b <= c /\ InHand = Pieces(b, c)
    /\ c <= d /\ FirstText(gateway.out) = Pieces(c, d)
    /\ d <= e /\ tail = Pieces(d, e)
    /\ FirstText(provider.out) = Pieces(e, read)
Chain == \E a, b, c, d, e \in 0..read : Links(a, b, c, d, e)

\* Whoever has `done' has it all.
DoneIsAll ==
    /\ out # <<>> /\ out[1].type = "done" => provider.then = "return" /\ draft = Written
    /\ \A i \in 1..Len(received) :
         received[i].type = "done" => provider.then = "return" /\ draft = Written

StreamInv ==
    /\ branch \in {"deep", "generic"}
    /\ route \in {"public", "private", "moved"}
    /\ read \in 0..MaxDeltas
    /\ cancelled \in BOOLEAN
    /\ caller \in {"waiting", "refused", "reading", "gone"}
    /\ ProviderSends
    /\ GatewaySends
    /\ Orchestrating
    /\ Queue
    /\ First
    /\ Chain
    /\ DoneIsAll

-----------------------------------------------------------------------------
(* The events and the short sequences of them.                              *)

LEMMA SenderIs ==
    \A events, then : /\ Sender(events, then).out = events
                      /\ Sender(events, then).then = then
  BY DEF Sender

LEMMA SenderEqual ==
    ASSUME NEW T, NEW s \in [out : Seq(StreamEvents), then : T], NEW events, NEW then
    PROVE  s = Sender(events, then) <=> s.out = events /\ s.then = then
  BY DEF Sender

LEMMA ReturnedIs ==
    ASSUME NEW T, NEW s \in [out : Seq(StreamEvents), then : T]
    PROVE  Returned(s) <=> s.out = <<>> /\ s.then = "return"
  BY DEF Returned, Sender

LEMMA EventsTyped ==
    /\ \A text \in Seq(Nat) : /\ Delta(text) \in StreamEvents /\ Delta(text).type = "delta"
                              /\ Delta(text).text = text
    /\ Done \in StreamEvents /\ Done.type = "done" /\ Done.text = <<>>
    /\ Error \in StreamEvents /\ Error.type = "error" /\ Error.text = <<>>
    /\ \A e \in StreamEvents :
         /\ WithMetadata(e) \in StreamEvents /\ WithMetadata(e).type = e.type
         /\ WithMetadata(e).text = e.text /\ WithMetadata(e).metadata
    /\ \A e \in StreamEvents : e.type \in Types /\ e.text \in Seq(Nat)
    /\ <<>> \in Seq(Nat)
<1>1. <<>> \in Seq(Nat)
  OBVIOUS
<1>2. \A text \in Seq(Nat) : /\ Delta(text) \in StreamEvents /\ Delta(text).type = "delta"
                             /\ Delta(text).text = text
  BY DEF Delta, StreamEvents, Types, IsTerminal
<1>3. /\ Done \in StreamEvents /\ Done.type = "done" /\ Done.text = <<>>
      /\ Error \in StreamEvents /\ Error.type = "error" /\ Error.text = <<>>
  BY <1>1 DEF Done, Error, StreamEvents, Types
<1>4. \A e \in StreamEvents :
         /\ WithMetadata(e) \in StreamEvents /\ WithMetadata(e).type = e.type
         /\ WithMetadata(e).text = e.text /\ WithMetadata(e).metadata
  BY DEF WithMetadata, StreamEvents, IsTerminal
<1> QED
  BY <1>1, <1>2, <1>3, <1>4 DEF StreamEvents

LEMMA Terminals ==
    \A e \in StreamEvents : /\ IsTerminal(e) <=> e.type # "delta"
                            /\ IsTerminal(e) => e.text = <<>>
  BY DEF StreamEvents, IsTerminal, Types

LEMMA NoEvents ==
    /\ <<>> \in Seq(StreamEvents) /\ Sendable(<<>>) /\ ~EndsStream(<<>>)
    /\ FirstText(<<>>) = <<>> /\ NoTerminal(<<>>)
  BY DEF Sendable, EndsStream, FirstText, NoTerminal

LEMMA OneEvent ==
    ASSUME NEW e \in StreamEvents
    PROVE  /\ <<e>> \in Seq(StreamEvents) /\ Sendable(<<e>>) /\ <<e>> # <<>> /\ Len(<<e>>) = 1
           /\ <<e>>[1] = e /\ Last(<<e>>) = e /\ Head(<<e>>) = e /\ Tail(<<e>>) = <<>>
           /\ EndsStream(<<e>>) <=> IsTerminal(e)
           /\ FirstText(<<e>>) = e.text
           /\ NoTerminal(<<e>>) <=> ~IsTerminal(e)
  BY DEF Sendable, EndsStream, FirstText, NoTerminal, Last

LEMMA TwoEvents ==
    ASSUME NEW d \in StreamEvents, NEW e \in StreamEvents, ~IsTerminal(d), IsTerminal(e)
    PROVE  /\ <<d, e>> \in Seq(StreamEvents) /\ Sendable(<<d, e>>) /\ <<d, e>> # <<>>
           /\ Last(<<d, e>>) = e /\ EndsStream(<<d, e>>)
           /\ FirstText(<<d, e>>) = d.text
  BY DEF Sendable, EndsStream, FirstText, Last

LEMMA Popped ==
    ASSUME NEW events, Sendable(events), events # <<>>
    PROVE  /\ Head(events) \in StreamEvents /\ Head(events) = events[1]
           /\ Sendable(Tail(events))
           /\ FirstText(events) = Head(events).text /\ FirstText(Tail(events)) = <<>>
           /\ IsTerminal(Head(events)) => Tail(events) = <<>> /\ Last(events) = Head(events)
           /\ Tail(events) = <<>> => (EndsStream(events) <=> IsTerminal(Head(events)))
           /\ Tail(events) # <<>> => /\ EndsStream(events) /\ EndsStream(Tail(events))
                                     /\ Last(Tail(events)) = Last(events)
<1>1. events \in Seq(StreamEvents) /\ (Len(events) = 1 \/ Len(events) = 2)
  <2>1. events \in Seq(StreamEvents) /\ Len(events) <= 2
    BY DEF Sendable
  <2>2. Len(events) \in Nat /\ Len(events) # 0
    BY <2>1, EmptySeq, LenProperties
  <2>3. \A n \in Nat : n <= 2 /\ n # 0 => n = 1 \/ n = 2
    OBVIOUS
  <2> QED
    BY <2>1, <2>2, <2>3, Zenon
<1>2. CASE Len(events) = 1
  <2>1. PICK x \in StreamEvents : events = <<x>>
    BY <1>1, <1>2
  <2> QED
    BY <2>1, NoEvents, OneEvent DEF Sendable
<1>3. CASE Len(events) = 2
  <2>1. PICK x \in StreamEvents, y \in StreamEvents : events = <<x, y>>
    <3>1. events[1] \in StreamEvents /\ events[2] \in StreamEvents
      BY <1>1, <1>3, ElementOfSeq
    <3>2. \A x, y \in StreamEvents : /\ <<x, y>> \in Seq(StreamEvents) /\ Len(<<x, y>>) = 2
                                      /\ <<x, y>>[1] = x /\ <<x, y>>[2] = y
      OBVIOUS
    <3>3. \A i \in 1..2 : i = 1 \/ i = 2
      OBVIOUS
    <3>4. events = <<events[1], events[2]>>
      BY <1>1, <1>3, <3>1, <3>2, <3>3, SeqEqual
    <3> QED
      BY <3>1, <3>4
  <2>2. ~IsTerminal(x) /\ IsTerminal(y)
    BY <1>3, <2>1 DEF Sendable
  <2>3. Head(events) = x /\ Tail(events) = <<y>>
    BY <2>1
  <2> QED
    BY <2>1, <2>2, <2>3, OneEvent, TwoEvents, Terminals
<1> QED
  BY <1>1, <1>2, <1>3

-----------------------------------------------------------------------------
(* The pieces of the text, and how runs of them are put together and cut.   *)

LEMMA PiecesAre ==
    ASSUME NEW a \in Nat, NEW b \in Nat, a <= b
    PROVE  /\ Pieces(a, b) \in Seq(Nat)
           /\ Len(Pieces(a, b)) = b - a
           /\ \A i \in 1..(b - a) : Pieces(a, b)[i] = a + i
<1>1. b - a \in Nat /\ \A i \in 1..(b - a) : a + i \in Nat
  OBVIOUS
<1>2. Pieces(a, b) \in Seq(Nat)
  BY <1>1, IsASeq DEF Pieces
<1>3. Len(Pieces(a, b)) = b - a
  BY <1>1, <1>2 DEF Pieces
<1> QED
  BY <1>2, <1>3 DEF Pieces

LEMMA NoPieces ==
    ASSUME NEW a \in Nat, NEW b \in Nat, a <= b
    PROVE  Pieces(a, b) = <<>> <=> a = b
<1>1. CASE a = b
  <2>1. Len(Pieces(a, b)) = 0 /\ Pieces(a, b) \in Seq(Nat)
    BY <1>1, PiecesAre
  <2> QED
    BY <1>1, <2>1, EmptySeq
<1>2. CASE a # b
  <2>1. Len(Pieces(a, b)) # 0
    BY <1>2, PiecesAre
  <2> QED
    BY <1>2, <2>1, EmptySeq
<1> QED
  BY <1>1, <1>2

LEMMA OnePiece ==
    ASSUME NEW n \in Nat
    PROVE  <<n + 1>> = Pieces(n, n + 1) /\ <<n + 1>> \in Seq(Nat)
<1>1. n + 1 \in Nat /\ n <= n + 1 /\ (n + 1) - n = 1
  OBVIOUS
<1>2. <<n + 1>> \in Seq(Nat) /\ Len(<<n + 1>>) = 1 /\ <<n + 1>>[1] = n + 1
  BY <1>1
<1>3. Pieces(n, n + 1) \in Seq(Nat) /\ Len(Pieces(n, n + 1)) = 1
  BY <1>1, PiecesAre
<1>4. Pieces(n, n + 1)[1] = n + 1
  BY <1>1, PiecesAre
<1>5. \A i \in 1..1 : <<n + 1>>[i] = Pieces(n, n + 1)[i]
  BY <1>2, <1>4
<1> QED
  BY <1>2, <1>3, <1>5, SeqEqual

LEMMA PiecesJoin ==
    ASSUME NEW a \in Nat, NEW b \in Nat, NEW c \in Nat, a <= b, b <= c
    PROVE  Pieces(a, b) \o Pieces(b, c) = Pieces(a, c)
<1>1. /\ Pieces(a, b) \in Seq(Nat) /\ Len(Pieces(a, b)) = b - a
      /\ Pieces(b, c) \in Seq(Nat) /\ Len(Pieces(b, c)) = c - b
      /\ Pieces(a, c) \in Seq(Nat) /\ Len(Pieces(a, c)) = c - a
  <2>1. a <= c
    OBVIOUS
  <2>2. Pieces(a, b) \in Seq(Nat) /\ Len(Pieces(a, b)) = b - a
    BY PiecesAre
  <2>3. Pieces(b, c) \in Seq(Nat) /\ Len(Pieces(b, c)) = c - b
    BY PiecesAre
  <2>4. Pieces(a, c) \in Seq(Nat) /\ Len(Pieces(a, c)) = c - a
    BY <2>1, PiecesAre
  <2> QED
    BY <2>2, <2>3, <2>4
<1>2. /\ Pieces(a, b) \o Pieces(b, c) \in Seq(Nat)
      /\ Len(Pieces(a, b) \o Pieces(b, c)) = (b - a) + (c - b)
  BY <1>1, ConcatProperties
<1>3. ASSUME NEW i \in 1..(c - a)
      PROVE  (Pieces(a, b) \o Pieces(b, c))[i] = Pieces(a, c)[i]
  <2>1. (Pieces(a, b) \o Pieces(b, c))[i] =
           IF i <= b - a THEN Pieces(a, b)[i] ELSE Pieces(b, c)[i - (b - a)]
    BY <1>1, ConcatProperties
  <2>2. CASE i <= b - a
    BY <2>1, <2>2, PiecesAre
  <2>3. CASE ~(i <= b - a)
    <3>1. i - (b - a) \in 1..(c - b) /\ b + (i - (b - a)) = a + i
      BY <2>3
    <3>2. Pieces(b, c)[i - (b - a)] = a + i
      BY <3>1, PiecesAre
    <3>3. Pieces(a, c)[i] = a + i
      BY PiecesAre
    <3> QED
      BY <2>1, <2>3, <3>2, <3>3
  <2> QED
    BY <2>2, <2>3
<1>4. (b - a) + (c - b) = c - a
  OBVIOUS
<1> QED
  BY <1>1, <1>2, <1>3, <1>4, SeqEqual

LEMMA PiecesCut ==
    ASSUME NEW a \in Nat, NEW b \in Nat, a <= b, NEW k \in 0..(b - a)
    PROVE  /\ SubSeq(Pieces(a, b), 1, k) = Pieces(a, a + k)
           /\ SubSeq(Pieces(a, b), k + 1, b - a) = Pieces(a + k, b)
<1> DEFINE all_ == Pieces(a, b)
<1>1. all_ \in Seq(Nat) /\ Len(all_) = b - a /\ \A i \in 1..(b - a) : all_[i] = a + i
  BY PiecesAre
<1>2. a + k \in Nat /\ a <= a + k /\ a + k <= b
  OBVIOUS
<1>3. /\ Pieces(a, a + k) \in Seq(Nat) /\ Len(Pieces(a, a + k)) = k
      /\ Pieces(a + k, b) \in Seq(Nat) /\ Len(Pieces(a + k, b)) = b - (a + k)
  <2>1. (a + k) - a = k
    OBVIOUS
  <2> QED
    BY <1>2, <2>1, PiecesAre
<1>4. SubSeq(all_, 1, k) = Pieces(a, a + k)
  <2>1. 1 \in Int /\ k \in Int /\ \A i \in 1..k : all_[i] \in Nat
    BY <1>1
  <2>2. /\ SubSeq(all_, 1, k) \in Seq(Nat)
        /\ Len(SubSeq(all_, 1, k)) = IF 1 <= k THEN k - 1 + 1 ELSE 0
        /\ \A i \in 1..(k - 1 + 1) : SubSeq(all_, 1, k)[i] = all_[1 + i - 1]
    BY <2>1, SubSeqProperties
  <2>3. Len(SubSeq(all_, 1, k)) = k
    BY <2>2
  <2>4. \A i \in 1..k : SubSeq(all_, 1, k)[i] = Pieces(a, a + k)[i]
    <3> TAKE i \in 1..k
    <3>1. i \in 1..(k - 1 + 1) /\ 1 + i - 1 = i /\ i \in 1..(b - a) /\ i \in 1..(a + k - a)
      OBVIOUS
    <3>2. SubSeq(all_, 1, k)[i] = a + i
      BY <1>1, <2>2, <3>1
    <3>3. Pieces(a, a + k)[i] = a + i
      BY <1>2, <3>1, PiecesAre
    <3> QED
      BY <3>2, <3>3
  <2> QED
    BY <1>3, <2>2, <2>3, <2>4, SeqEqual
<1>5. SubSeq(all_, k + 1, b - a) = Pieces(a + k, b)
  <2>1. k + 1 \in Int /\ b - a \in Int /\ \A i \in (k + 1)..(b - a) : all_[i] \in Nat
    BY <1>1
  <2>2. /\ SubSeq(all_, k + 1, b - a) \in Seq(Nat)
        /\ Len(SubSeq(all_, k + 1, b - a)) =
             IF k + 1 <= b - a THEN (b - a) - (k + 1) + 1 ELSE 0
        /\ \A i \in 1..((b - a) - (k + 1) + 1) :
             SubSeq(all_, k + 1, b - a)[i] = all_[k + 1 + i - 1]
    BY <2>1, SubSeqProperties
  <2>3. Len(SubSeq(all_, k + 1, b - a)) = b - (a + k)
    BY <2>2
  <2>4. \A i \in 1..(b - (a + k)) : SubSeq(all_, k + 1, b - a)[i] = Pieces(a + k, b)[i]
    <3> TAKE i \in 1..(b - (a + k))
    <3>1. /\ i \in 1..((b - a) - (k + 1) + 1) /\ k + 1 + i - 1 = k + i
          /\ k + i \in 1..(b - a) /\ a + (k + i) = a + k + i
      OBVIOUS
    <3>2. SubSeq(all_, k + 1, b - a)[i] = a + k + i
      BY <1>1, <2>2, <3>1
    <3>3. Pieces(a + k, b)[i] = a + k + i
      BY <1>2, PiecesAre
    <3> QED
      BY <3>2, <3>3
  <2> QED
    BY <1>3, <2>2, <2>3, <2>4, SeqEqual
<1> QED
  BY <1>4, <1>5

-----------------------------------------------------------------------------
(* The chain of the text.                                                   *)

\* It stays as it is where the places keep their pieces.
LEMMA ChainStays ==
    ASSUME Chain, UNCHANGED <<draft, read, tail>>,
           FirstText(out') = FirstText(out),
           FirstText(gateway'.out) = FirstText(gateway.out),
           FirstText(provider'.out) = FirstText(provider.out),
           Unbroken' => Unbroken /\ InHand' = InHand
    PROVE  Chain'
<1>1. PICK a, b, c, d, e \in 0..read : Links(a, b, c, d, e)
  BY DEF Chain
<1>2. Links(a, b, c, d, e)'
  BY <1>1 DEF Links
<1>3. read' = read
  OBVIOUS
<1> QED
  BY <1>2, <1>3 DEF Chain

\* Where nothing is on its way any more, the caller has it all.
LEMMA AllIsRead ==
    ASSUME Chain, read \in Nat,
           FirstText(out) = <<>>, FirstText(gateway.out) = <<>>, tail = <<>>,
           FirstText(provider.out) = <<>>, Unbroken, InHand = <<>>
    PROVE  draft = Written
<1>1. PICK a, b, c, d, e \in 0..read : Links(a, b, c, d, e)
  BY DEF Chain
<1>2. a = b
  BY <1>1, NoPieces DEF Links
<1>3. b = c
  BY <1>1, NoPieces DEF Links
<1>4. c = d
  BY <1>1, NoPieces DEF Links
<1>5. d = e
  BY <1>1, NoPieces DEF Links
<1>6. e = read
  BY <1>1, NoPieces DEF Links
<1> QED
  BY <1>1, <1>2, <1>3, <1>4, <1>5, <1>6 DEF Links, Written

-----------------------------------------------------------------------------
(* The provider client keeps the invariant.                                 *)

LEMMA Reading ==
    ASSUME StreamInv, NEW events, NEW then \in {"read", "return"}, Reads(events, then),
           read' \in read..MaxDeltas, Sendable(events), events # <<>>,
           EndsStream(events) <=> then = "return",
           FirstText(events) = Pieces(read, read')
    PROVE  StreamInv'
<1> USE DEF StreamInv
<1>1. /\ provider.out = <<>> /\ provider.then = "read" /\ ~Returned(provider)
      /\ provider' = Sender(events, then)
      /\ UNCHANGED <<branch, route, gateway, tail, orchestrator, out, cancelled, caller,
                     received, draft>>
  BY DEF Reads, Returned, Sender
<1>2. /\ provider' \in [out : Seq(StreamEvents), then : {"read", "return"}]
      /\ provider'.out = events /\ provider'.then = then
  BY <1>1 DEF Sender, Sendable
<1>3. ~Returned(provider')
  BY <1>2, ReturnedIs
<1>4. ProviderSends'
  BY <1>2 DEF ProviderSends
<1>5. GatewaySends'
  BY <1>1 DEF GatewaySends
<1>6. Orchestrating'
  BY <1>1, <1>3 DEF Orchestrating, Coming, Ended
<1>7. Queue'
  BY <1>1 DEF Queue, Passed, Ended
<1>8. First'
  BY <1>1 DEF First
<1>9. Chain'
  <2>1. PICK a, b, c, d, e \in 0..read : Links(a, b, c, d, e)
    BY DEF Chain
  <2>2. FirstText(provider.out) = <<>>
    BY <1>1, NoEvents
  <2>3. e = read
    <3>1. e \in Nat /\ read \in Nat /\ e <= read /\ Pieces(e, read) = <<>>
      BY <2>1, <2>2, MaxDeltasAssumption DEF Links
    <3> QED
      BY <3>1, NoPieces
  <2>4. /\ draft' = draft /\ out' = out /\ orchestrator' = orchestrator
        /\ gateway' = gateway /\ tail' = tail /\ provider'.out = events
    BY <1>1, <1>2
  <2>5. InHand' = InHand /\ (Unbroken' <=> Unbroken)
    BY <2>4 DEF InHand, Unbroken
  <2>6. Links(a, b, c, d, e)'
    BY <2>1, <2>3, <2>4, <2>5 DEF Links
  <2>7. a \in 0..read' /\ b \in 0..read' /\ c \in 0..read' /\ d \in 0..read' /\ e \in 0..read'
    OBVIOUS
  <2> QED
    BY <2>6, <2>7 DEF Chain
<1>10. DoneIsAll'
  BY <1>1 DEF DoneIsAll
<1>11. /\ branch' \in {"deep", "generic"} /\ route' \in {"public", "private", "moved"}
       /\ read' \in 0..MaxDeltas /\ cancelled' \in BOOLEAN
       /\ caller' \in {"waiting", "refused", "reading", "gone"}
  BY <1>1
<1> QED
  BY <1>4, <1>5, <1>6, <1>7, <1>8, <1>9, <1>10, <1>11

LEMMA ProviderKeeps ==
    ASSUME StreamInv, ProviderStep
    PROVE  StreamInv'
<1>1. read \in Nat /\ read <= MaxDeltas /\ Pieces(read, read) = <<>>
  BY MaxDeltasAssumption, NoPieces DEF StreamInv
<1>2. /\ Delta(<<read + 1>>) \in StreamEvents /\ ~IsTerminal(Delta(<<read + 1>>))
      /\ Delta(<<read + 1>>).text = Pieces(read, read + 1)
  BY <1>1, OnePiece, EventsTyped, Terminals
<1>3. /\ Done \in StreamEvents /\ IsTerminal(Done) /\ Done.text = <<>>
      /\ Error \in StreamEvents /\ IsTerminal(Error) /\ Error.text = <<>>
  BY EventsTyped, Terminals
<1>4. CASE ReadDelta
  <2> DEFINE events == <<Delta(<<read + 1>>)>>
  <2>1. /\ Sendable(events) /\ events # <<>> /\ ~EndsStream(events)
        /\ FirstText(events) = Pieces(read, read + 1)
    BY <1>2, OneEvent
  <2>2. Reads(events, "read") /\ read' = read + 1 /\ read' \in read..MaxDeltas
    BY <1>1, <1>4, MaxDeltasAssumption DEF ReadDelta
  <2> HIDE DEF events
  <2>3. PICK then \in {"read", "return"} : then = "read"
    OBVIOUS
  <2>4. Reads(events, then) /\ (EndsStream(events) <=> then = "return")
    BY <2>1, <2>2, <2>3
  <2>5. FirstText(events) = Pieces(read, read')
    BY <2>1, <2>2
  <2> QED
    BY <2>1, <2>2, <2>4, <2>5, Reading
<1>5. CASE ReadFinish
  <2>1. ASSUME NEW events, Reads(events, "return"), read' \in read..MaxDeltas,
               Sendable(events), events # <<>>, EndsStream(events),
               FirstText(events) = Pieces(read, read')
        PROVE  StreamInv'
    <3>1. PICK then \in {"read", "return"} : then = "return"
      OBVIOUS
    <3>2. Reads(events, then) /\ (EndsStream(events) <=> then = "return")
      BY <2>1, <3>1
    <3> QED
      BY <2>1, <3>2, Reading
  <2>2. CASE read < MaxDeltas /\ read' = read + 1 /\ Reads(<<Delta(<<read + 1>>), Done>>, "return")
    <3> DEFINE events == <<Delta(<<read + 1>>), Done>>
    <3>1. /\ Sendable(events) /\ events # <<>> /\ EndsStream(events)
          /\ FirstText(events) = Pieces(read, read + 1)
      BY <1>2, <1>3, TwoEvents
    <3>2. read' \in read..MaxDeltas
      BY <1>1, <2>2, MaxDeltasAssumption
    <3> HIDE DEF events
    <3>3. FirstText(events) = Pieces(read, read') /\ Reads(events, "return")
      BY <2>2, <3>1 DEF events
    <3> QED
      BY <2>1, <3>1, <3>2, <3>3
  <2>3. CASE read' = read /\ Reads(<<Done>>, "return")
    <3> DEFINE events == <<Done>>
    <3>1. /\ Sendable(events) /\ events # <<>> /\ EndsStream(events)
          /\ FirstText(events) = Pieces(read, read)
      BY <1>1, <1>3, OneEvent
    <3>2. read' \in read..MaxDeltas
      BY <1>1, <2>3, MaxDeltasAssumption
    <3> HIDE DEF events
    <3>3. FirstText(events) = Pieces(read, read') /\ Reads(events, "return")
      BY <2>3, <3>1 DEF events
    <3> QED
      BY <2>1, <3>1, <3>2, <3>3
  <2> QED
    BY <1>5, <2>2, <2>3 DEF ReadFinish
<1>6. CASE ReadFails
  <2> DEFINE events == <<Error>>
  <2>1. /\ Sendable(events) /\ events # <<>> /\ EndsStream(events)
        /\ FirstText(events) = Pieces(read, read)
    BY <1>1, <1>3, OneEvent
  <2>2. Reads(events, "return") /\ read' = read /\ read' \in read..MaxDeltas
    BY <1>1, <1>6, MaxDeltasAssumption DEF ReadFails
  <2> HIDE DEF events
  <2>3. PICK then \in {"read", "return"} : then = "return"
    OBVIOUS
  <2>4. Reads(events, then) /\ (EndsStream(events) <=> then = "return")
    BY <2>1, <2>2, <2>3
  <2>5. FirstText(events) = Pieces(read, read')
    BY <2>1, <2>2
  <2> QED
    BY <2>1, <2>2, <2>4, <2>5, Reading
<1> QED
  BY <1>4, <1>5, <1>6 DEF ProviderStep

-----------------------------------------------------------------------------
(* The gateway keeps the invariant.                                         *)

\* What is held back and what has come are cut anew.
LEMMA DeltaForwarded ==
    ASSUME StreamInv, gateway = Sender(<<>>, "receive"), provider.out # <<>>,
           ForwardDelta(Head(provider.out)),
           provider' = Sender(Tail(provider.out), provider.then),
           UNCHANGED <<branch, route, read, orchestrator, out, cancelled, caller, received, draft>>
    PROVE  GatewaySends' /\ Chain'
<1> DEFINE e == Head(provider.out)
           text == tail \o e.text
<1>1. Sendable(provider.out) /\ gateway.out = <<>> /\ gateway.then = "receive"
  BY DEF StreamInv, ProviderSends, Sender
<1>2. e \in StreamEvents /\ FirstText(provider.out) = e.text /\ FirstText(Tail(provider.out)) = <<>>
  BY <1>1, Popped
<1>3. PICK a, b, c, d, x \in 0..read : Links(a, b, c, d, x)
  BY DEF StreamInv, Chain
<1>4. read \in Nat
  BY MaxDeltasAssumption DEF StreamInv
<1>5. c = d
  <2>1. c \in Nat /\ d \in Nat /\ c <= d /\ Pieces(c, d) = <<>>
    BY <1>1, <1>3, <1>4, NoEvents DEF Links
  <2> QED
    BY <2>1, NoPieces
<1>6. text = Pieces(d, read) /\ d \in Nat /\ d <= read
  <2>1. d \in Nat /\ x \in Nat /\ d <= x /\ x <= read /\ tail = Pieces(d, x) /\ e.text = Pieces(x, read)
    BY <1>2, <1>3, <1>4 DEF Links
  <2>2. Pieces(d, x) \o Pieces(x, read) = Pieces(d, read)
    BY <1>4, <2>1, PiecesJoin
  <2>3. d <= read
    BY <1>4, <2>1
  <2> QED
    BY <2>1, <2>2, <2>3
<1>7. text \in Seq(Nat) /\ Len(text) = read - d
  BY <1>4, <1>6, PiecesAre
<1> HIDE DEF text
<1>8. PICK k \in Held(text) :
        /\ gateway' = Sender(<<Delta(SubSeq(text, 1, k))>>, "receive")
        /\ tail' = SubSeq(text, k + 1, Len(text))
  BY DEF ForwardDelta, text
<1>9. k \in 0..(read - d) /\ (route # "public" => k = read - d)
  BY <1>4, <1>6, <1>7, <1>8 DEF Held
<1>10. d + k \in Nat /\ d <= d + k /\ d + k <= read
  BY <1>4, <1>6, <1>9
<1>11. /\ SubSeq(text, 1, k) = Pieces(d, d + k)
       /\ tail' = Pieces(d + k, read)
  BY <1>4, <1>6, <1>7, <1>8, <1>9, PiecesCut
<1>12. PICK event \in StreamEvents :
         /\ ~IsTerminal(event) /\ event.text = Pieces(d, d + k)
         /\ gateway' = Sender(<<event>>, "receive")
  <2>1. SubSeq(text, 1, k) \in Seq(Nat)
    BY <1>6, <1>10, <1>11, PiecesAre
  <2> QED
    BY <1>8, <1>11, <2>1, EventsTyped, Terminals
<1>13. /\ gateway'.out = <<event>> /\ gateway'.then = "receive"
       /\ <<event>> \in Seq(StreamEvents) /\ Sendable(<<event>>) /\ ~EndsStream(<<event>>)
       /\ FirstText(<<event>>) = Pieces(d, d + k)
  BY <1>12, OneEvent, SenderIs
<1>14. tail' # <<>> => route = "public"
  <2>1. SUFFICES ASSUME route # "public"
                 PROVE  tail' = <<>>
    OBVIOUS
  <2>2. d + k = read
    BY <1>4, <1>6, <1>9, <2>1
  <2> QED
    BY <1>4, <1>10, <1>11, <2>2, NoPieces
<1>15. GatewaySends'
  <2>1. gateway' \in [out : Seq(StreamEvents), then : {"receive", "return"}]
    BY <1>12, <1>13 DEF Sender
  <2> QED
    BY <1>13, <1>14, <2>1 DEF GatewaySends
<1>16. Chain'
  <2>1. Pieces(read, read) = <<>>
    BY <1>4, NoPieces
  <2>2. provider'.out = Tail(provider.out)
    BY SenderIs
  <2>3. InHand' = InHand /\ (Unbroken' <=> Unbroken)
    BY DEF InHand, Unbroken
  <2>4. Links(a, b, d, d + k, read)'
    BY <1>2, <1>3, <1>5, <1>10, <1>11, <1>13, <2>1, <2>2, <2>3 DEF Links
  <2>5. /\ a \in 0..read' /\ b \in 0..read' /\ d \in 0..read' /\ d + k \in 0..read'
        /\ read \in 0..read'
    BY <1>4, <1>10
  <2>6. \E w \in 0..read' : w = d + k /\ Links(a, b, d, w, read)'
    BY <2>4, <2>5
  <2> QED
    BY <2>5, <2>6 DEF Chain
<1> QED
  BY <1>15, <1>16

LEMMA TerminalForwarded ==
    ASSUME StreamInv, gateway = Sender(<<>>, "receive"), provider.out # <<>>,
           ForwardDone(Head(provider.out)) \/ ForwardError(Head(provider.out)),
           provider' = Sender(Tail(provider.out), provider.then),
           UNCHANGED <<branch, route, read, orchestrator, out, cancelled, caller, received, draft>>
    PROVE  GatewaySends' /\ EndsStream(gateway'.out) /\ Chain'
<1> DEFINE e == Head(provider.out)
<1>1. /\ Sendable(provider.out) /\ gateway.out = <<>> /\ gateway.then = "receive"
      /\ provider'.out = Tail(provider.out) /\ provider'.then = provider.then
      /\ tail # <<>> => route = "public"
  BY DEF StreamInv, ProviderSends, GatewaySends, Sender
<1>2. /\ e \in StreamEvents /\ FirstText(provider.out) = e.text
      /\ FirstText(Tail(provider.out)) = <<>>
  BY <1>1, Popped
<1>3. IsTerminal(e) /\ e.text = <<>>
  BY <1>2, Terminals DEF ForwardDone, ForwardError
<1>4. Returned(provider')
  <2>1. Tail(provider.out) = <<>> /\ EndsStream(provider.out)
    BY <1>1, <1>3, Popped
  <2>2. provider.then = "return"
    BY <2>1 DEF StreamInv, ProviderSends
  <2> QED
    BY <2>1, <2>2 DEF Returned
<1>5. InHand' = InHand /\ (Unbroken' <=> Unbroken)
  BY DEF InHand, Unbroken
<1>6. CASE ForwardDone(e)
  <2>1. PICK a, b, c, d, x \in 0..read : Links(a, b, c, d, x)
    BY DEF StreamInv, Chain
  <2>2. read \in Nat
    BY MaxDeltasAssumption DEF StreamInv
  <2>3. c = d
    <3>1. c \in Nat /\ d \in Nat /\ c <= d /\ Pieces(c, d) = <<>>
      BY <1>1, <2>1, <2>2, NoEvents DEF Links
    <3> QED
      BY <3>1, NoPieces
  <2>4. Pieces(x, x) = <<>> /\ d \in Nat /\ x \in Nat /\ d <= x /\ tail = Pieces(d, x)
    BY <2>1, <2>2, NoPieces DEF Links
  <2>5. tail \in Seq(Nat)
    BY <2>4, PiecesAre
  <2>6. PICK events :
          /\ gateway' = Sender(events, "receive") /\ events \in Seq(StreamEvents)
          /\ Sendable(events) /\ events # <<>>
          /\ EndsStream(events) /\ FirstText(events) = tail
    <3>1. CASE tail = <<>>
      <4>1. gateway' = Sender(<<e>>, "receive")
        BY <1>6, <3>1 DEF ForwardDone, Flush
      <4>2. /\ <<e>> \in Seq(StreamEvents) /\ Sendable(<<e>>) /\ <<e>> # <<>>
            /\ EndsStream(<<e>>) /\ FirstText(<<e>>) = tail
        BY <1>2, <1>3, <3>1, OneEvent
      <4> QED
        BY <4>1, <4>2, Zenon
    <3>2. CASE tail # <<>>
      <4>1. Delta(tail) \in StreamEvents /\ ~IsTerminal(Delta(tail)) /\ Delta(tail).text = tail
        BY <2>5, EventsTyped, Terminals
      <4>2. gateway' = Sender(<<Delta(tail), e>>, "receive")
        BY <1>6, <3>2 DEF ForwardDone, Flush
      <4>3. /\ <<Delta(tail), e>> \in Seq(StreamEvents) /\ Sendable(<<Delta(tail), e>>)
            /\ <<Delta(tail), e>> # <<>>
            /\ EndsStream(<<Delta(tail), e>>) /\ FirstText(<<Delta(tail), e>>) = tail
        BY <1>2, <1>3, <4>1, TwoEvents
      <4> QED
        BY <4>2, <4>3, Zenon
    <3> QED
      BY <3>1, <3>2
  <2>7. gateway'.out = events /\ gateway'.then = "receive" /\ tail' = <<>>
    BY <1>6, <2>6, SenderIs DEF ForwardDone
  <2>8. GatewaySends'
    <3>1. gateway' \in [out : Seq(StreamEvents), then : {"receive", "return"}]
      BY <2>6 DEF Sender
    <3> QED
      BY <1>4, <2>6, <2>7, <3>1 DEF GatewaySends
  <2>9. Links(a, b, d, x, x)'
    BY <1>1, <1>2, <1>3, <1>5, <2>1, <2>3, <2>4, <2>6, <2>7 DEF Links
  <2> QED
    BY <2>1, <2>6, <2>7, <2>8, <2>9 DEF Chain
<1>7. CASE ForwardError(e)
  <2>1. PICK event \in StreamEvents, then \in {"receive", "return"} :
          /\ event.type = "error" /\ event.text = <<>> /\ IsTerminal(event)
          /\ gateway' = Sender(<<event>>, then)
    BY <1>2, <1>3, <1>7, EventsTyped, Terminals DEF ForwardError
  <2>2. /\ gateway'.out = <<event>> /\ gateway'.then = then /\ tail' = tail
        /\ <<event>> \in Seq(StreamEvents) /\ Sendable(<<event>>) /\ EndsStream(<<event>>)
        /\ FirstText(<<event>>) = <<>> /\ Last(<<event>>) = event
    BY <1>7, <2>1, OneEvent, SenderIs DEF ForwardError
  <2>3. GatewaySends'
    <3>1. gateway' \in [out : Seq(StreamEvents), then : {"receive", "return"}]
      BY <2>1, <2>2 DEF Sender
    <3> QED
      BY <1>1, <1>4, <2>1, <2>2, <3>1 DEF GatewaySends
  <2>4. Chain'
    BY <1>1, <1>2, <1>3, <1>5, <2>2, NoEvents, ChainStays DEF StreamInv
  <2> QED
    BY <2>2, <2>3, <2>4
<1> QED
  BY <1>6, <1>7

LEMMA GatewayReceivesKeeps ==
    ASSUME StreamInv, GatewayReceives
    PROVE  StreamInv'
<1> DEFINE e == Head(provider.out)
<1>1. /\ gateway = Sender(<<>>, "receive") /\ provider.out # <<>>
      /\ provider' = Sender(Tail(provider.out), provider.then)
      /\ UNCHANGED <<branch, route, read, orchestrator, out, cancelled, caller, received, draft>>
      /\ ForwardDelta(e) \/ ForwardDone(e) \/ ForwardError(e)
  BY DEF GatewayReceives
<1>2. /\ Sendable(provider.out) /\ ~Returned(provider)
      /\ provider'.out = Tail(provider.out) /\ provider'.then = provider.then
  <2>1. Sendable(provider.out)
    BY DEF StreamInv, ProviderSends
  <2>2. ~Returned(provider)
    BY <1>1 DEF Returned, Sender
  <2>3. provider'.out = Tail(provider.out) /\ provider'.then = provider.then
    BY <1>1, SenderIs
  <2> QED
    BY <2>1, <2>2, <2>3
<1>3. ProviderSends'
  <2>1. /\ Sendable(Tail(provider.out))
        /\ Tail(provider.out) # <<>> => EndsStream(provider.out) /\ EndsStream(Tail(provider.out))
    BY <1>1, <1>2, Popped
  <2>2. provider' \in [out : Seq(StreamEvents), then : {"read", "return"}]
    BY <1>1, <2>1 DEF StreamInv, ProviderSends, Sendable, Sender
  <2> QED
    BY <1>1, <1>2, <2>1, <2>2 DEF StreamInv, ProviderSends
<1>4. GatewaySends' /\ Chain' /\ Coming'
  <2>1. CASE ForwardDelta(e)
    <3>1. ~IsTerminal(e)
      BY <2>1 DEF ForwardDelta, IsTerminal
    <3>2. ~Returned(provider')
      <4>1. Returned(provider') => Tail(provider.out) = <<>> /\ provider.then = "return"
        BY <1>2 DEF Returned, Sender
      <4>2. Tail(provider.out) = <<>> => ~EndsStream(provider.out)
        BY <1>1, <1>2, <3>1, Popped
      <4> QED
        BY <1>1, <4>1, <4>2 DEF StreamInv, ProviderSends
    <3> QED
      BY <1>1, <2>1, <3>2, DeltaForwarded DEF Coming
  <2>2. CASE ForwardDone(e) \/ ForwardError(e)
    BY <1>1, <2>2, TerminalForwarded DEF Coming
  <2> QED
    BY <1>1, <2>1, <2>2
<1>5. Orchestrating'
  BY <1>1, <1>2, <1>4 DEF StreamInv, Orchestrating, Ended
<1>6. Queue'
  BY <1>1, <1>2 DEF StreamInv, Queue, Passed, Ended
<1>7. First'
  BY <1>1 DEF StreamInv, First
<1>8. DoneIsAll'
  <2>1. Written' = Written
    BY <1>1 DEF Written
  <2> QED
    BY <1>1, <1>2, <2>1 DEF StreamInv, DoneIsAll
<1>9. /\ branch' \in {"deep", "generic"} /\ route' \in {"public", "private", "moved"}
      /\ read' \in 0..MaxDeltas /\ cancelled' \in BOOLEAN
      /\ caller' \in {"waiting", "refused", "reading", "gone"}
  BY <1>1 DEF StreamInv
<1> QED
  BY <1>3, <1>4, <1>5, <1>6, <1>7, <1>8, <1>9 DEF StreamInv

LEMMA GatewayEndsKeeps ==
    ASSUME StreamInv, GatewayEnds
    PROVE  StreamInv'
<1> DEFINE events == IF tail = <<>> THEN <<>> ELSE <<Delta(tail)>>
<1>1. /\ gateway = Sender(<<>>, "receive") /\ Returned(provider)
      /\ gateway' = Sender(events, "return") /\ tail' = <<>>
      /\ UNCHANGED <<branch, route, provider, read, orchestrator, out, cancelled, caller,
                     received, draft>>
  BY DEF GatewayEnds
<1>2. gateway.out = <<>> /\ gateway.then = "receive" /\ ~EndsStream(gateway.out)
  BY <1>1, SenderIs, NoEvents
<1>3. read \in Nat /\ (tail # <<>> => route = "public")
  BY MaxDeltasAssumption DEF StreamInv, GatewaySends
<1>4. PICK a, b, c, d, x \in 0..read : Links(a, b, c, d, x)
  BY DEF StreamInv, Chain
<1>5. c = d
  <2>1. c \in Nat /\ d \in Nat /\ c <= d /\ Pieces(c, d) = <<>>
    BY <1>2, <1>3, <1>4, NoEvents DEF Links
  <2> QED
    BY <2>1, NoPieces
<1>6. Pieces(x, x) = <<>> /\ d \in Nat /\ x \in Nat /\ d <= x /\ tail = Pieces(d, x)
  BY <1>3, <1>4, NoPieces DEF Links
<1>7. tail \in Seq(Nat)
  BY <1>6, PiecesAre
<1>8. /\ events \in Seq(StreamEvents) /\ Sendable(events) /\ ~EndsStream(events)
      /\ FirstText(events) = tail /\ (events # <<>> => tail # <<>>)
  <2>1. CASE tail = <<>>
    BY <2>1, NoEvents
  <2>2. CASE tail # <<>>
    <3>1. Delta(tail) \in StreamEvents /\ ~IsTerminal(Delta(tail)) /\ Delta(tail).text = tail
      BY <1>7, EventsTyped, Terminals
    <3> QED
      BY <2>2, <3>1, OneEvent
  <2> QED
    BY <2>1, <2>2
<1> HIDE DEF events
<1>9. gateway'.out = events /\ gateway'.then = "return" /\ ~Returned(gateway)
  <2>1. ~Returned(gateway)
    BY <1>1 DEF Returned, Sender
  <2> QED
    BY <1>1, <2>1, SenderIs
<1>10. GatewaySends'
  <2>1. gateway' \in [out : Seq(StreamEvents), then : {"receive", "return"}]
    BY <1>1, <1>8 DEF Sender
  <2> QED
    BY <1>1, <1>3, <1>8, <1>9, <2>1 DEF GatewaySends
<1>11. \A e : Ended(e) => Ended(e)'
  BY <1>1, <1>2, <1>8, <1>9 DEF Ended
<1>12. Orchestrating'
  <2>1. ~Coming
    BY <1>1, <1>2 DEF Coming
  <2> QED
    BY <1>1, <1>9, <1>11, <2>1 DEF StreamInv, Orchestrating
<1>13. Queue'
  <2>1. \A e : Passed(e) => Passed(e)'
    BY <1>1, <1>11 DEF Passed
  <2> QED
    BY <1>1, <2>1 DEF StreamInv, Queue
<1>14. First'
  BY <1>1 DEF StreamInv, First
<1>15. Chain'
  <2>1. InHand' = InHand /\ (Unbroken' <=> Unbroken)
    BY <1>1 DEF InHand, Unbroken
  <2>2. Links(a, b, d, x, x)'
    BY <1>1, <1>4, <1>5, <1>6, <1>8, <1>9, <2>1 DEF Links
  <2> QED
    BY <1>1, <1>4, <2>2 DEF Chain
<1>16. DoneIsAll'
  <2>1. Written' = Written
    BY <1>1 DEF Written
  <2> QED
    BY <1>1, <2>1 DEF StreamInv, DoneIsAll
<1>17. ProviderSends'
  BY <1>1 DEF StreamInv, ProviderSends
<1>18. /\ branch' \in {"deep", "generic"} /\ route' \in {"public", "private", "moved"}
       /\ read' \in 0..MaxDeltas /\ cancelled' \in BOOLEAN
       /\ caller' \in {"waiting", "refused", "reading", "gone"}
  BY <1>1 DEF StreamInv
<1> QED
  BY <1>10, <1>12, <1>13, <1>14, <1>15, <1>16, <1>17, <1>18 DEF StreamInv

-----------------------------------------------------------------------------
(* The orchestrator keeps the invariant.                                    *)

LEMMA GoesTo ==
    ASSUME NEW at, NEW event, NEW first, OrchestratorGoes(at, event, first)
    PROVE  /\ orchestrator'.at = at /\ orchestrator'.event = event /\ orchestrator'.first = first
           /\ at \in Places /\ event \in StreamEvents /\ first \in BOOLEAN =>
                orchestrator' \in [at : Places, event : StreamEvents, first : BOOLEAN]
  BY DEF OrchestratorGoes

LEMMA OnlyDeep ==
    ASSUME StreamInv, orchestrator.at \notin {"preparing", "refused", "absent"}
    PROVE  branch = "deep"
  BY DEF StreamInv, Orchestrating

\* The orchestrator moves, and nothing is sent or received.
LEMMA Moving ==
    ASSUME StreamInv,
           UNCHANGED <<branch, route, provider, read, gateway, tail, out, cancelled, received,
                       draft>>,
           caller' \in {"waiting", "refused", "reading", "gone"},
           orchestrator.at # "returned", orchestrator'.at # "returned",
           orchestrator'.at \in {"preparing", "refused"} => orchestrator.at = "preparing",
           Unbroken' => Unbroken /\ InHand' = InHand,
           Orchestrating', First'
    PROVE  StreamInv'
<1>1. ProviderSends' /\ GatewaySends'
  BY DEF StreamInv, ProviderSends, GatewaySends
<1>2. Queue'
  BY DEF StreamInv, Queue
<1>3. Chain'
  BY ChainStays DEF StreamInv
<1>4. DoneIsAll'
  <2>1. Written' = Written
    BY DEF Written
  <2> QED
    BY <2>1 DEF StreamInv, DoneIsAll
<1>5. /\ branch' \in {"deep", "generic"} /\ route' \in {"public", "private", "moved"}
      /\ read' \in 0..MaxDeltas /\ cancelled' \in BOOLEAN
  BY DEF StreamInv
<1> QED
  BY <1>1, <1>2, <1>3, <1>4, <1>5 DEF StreamInv

LEMMA LoopTopKeeps ==
    ASSUME StreamInv, LoopTop
    PROVE  StreamInv'
<1>1. PICK at \in Places :
        /\ at = IF cancelled THEN "cancelling" ELSE "waiting"
        /\ orchestrator.at = "top" /\ OrchestratorGoes(at, Done, orchestrator.first)
        /\ UNCHANGED <<branch, route, provider, read, gateway, tail, out, cancelled, caller,
                       received, draft>>
  BY DEF LoopTop, OnlyOrchestrator, Places
<1>2. branch = "deep"
  BY <1>1, OnlyDeep
<1>3. /\ orchestrator'.at = at /\ orchestrator'.first = orchestrator.first
      /\ orchestrator' \in [at : Places, event : StreamEvents, first : BOOLEAN]
  BY <1>1, GoesTo, EventsTyped DEF StreamInv, Orchestrating
<1>4. Orchestrating'
  BY <1>1, <1>2, <1>3 DEF StreamInv, Orchestrating, Coming, Ended
<1>5. First'
  BY <1>1, <1>3 DEF StreamInv, First
<1>6. Unbroken /\ InHand = <<>> /\ InHand' = <<>>
  BY <1>1, <1>3 DEF Unbroken, InHand
<1> QED
  BY <1>1, <1>3, <1>4, <1>5, <1>6, Moving DEF StreamInv

LEMMA SeesCancelKeeps ==
    ASSUME StreamInv, SeesCancel
    PROVE  StreamInv'
<1>1. /\ orchestrator.at \in {"waiting", "sending"} /\ cancelled
      /\ OrchestratorGoes("cancelling", Done, orchestrator.first)
      /\ UNCHANGED <<branch, route, provider, read, gateway, tail, out, cancelled, caller,
                     received, draft>>
  BY DEF SeesCancel, OnlyOrchestrator
<1>2. branch = "deep"
  BY <1>1, OnlyDeep
<1>3. /\ orchestrator'.at = "cancelling" /\ orchestrator'.first = orchestrator.first
      /\ orchestrator' \in [at : Places, event : StreamEvents, first : BOOLEAN]
  BY <1>1, GoesTo, EventsTyped DEF StreamInv, Orchestrating, Places
<1>4. Orchestrating'
  BY <1>1, <1>2, <1>3 DEF StreamInv, Orchestrating
<1>5. First'
  BY <1>1, <1>3 DEF StreamInv, First
<1>6. ~Unbroken'
  BY <1>3 DEF Unbroken
<1> QED
  BY <1>1, <1>3, <1>4, <1>5, <1>6, Moving DEF StreamInv

LEMMA WrapKeeps ==
    ASSUME StreamInv, Wrap
    PROVE  StreamInv'
<1> DEFINE e == orchestrator.event
<1>1. /\ orchestrator.at = "received"
      /\ UNCHANGED <<branch, route, provider, read, gateway, tail, out, cancelled, caller,
                     received, draft>>
  BY DEF Wrap, OnlyOrchestrator
<1>2. branch = "deep"
  BY <1>1, OnlyDeep
<1>3. e \in StreamEvents
  BY DEF StreamInv, Orchestrating
<1>4. CASE cancelled
  <2>1. OrchestratorGoes("cancelling", Done, orchestrator.first)
    BY <1>4 DEF Wrap
  <2>2. /\ orchestrator'.at = "cancelling" /\ orchestrator'.first = orchestrator.first
        /\ orchestrator' \in [at : Places, event : StreamEvents, first : BOOLEAN]
    BY <2>1, GoesTo, EventsTyped DEF StreamInv, Orchestrating, Places
  <2>3. Orchestrating'
    BY <1>1, <1>2, <1>4, <2>2 DEF StreamInv, Orchestrating
  <2>4. First'
    BY <1>1, <2>2 DEF StreamInv, First
  <2>5. ~Unbroken'
    BY <2>2 DEF Unbroken
  <2> QED
    BY <1>1, <2>2, <2>3, <2>4, <2>5, Moving DEF StreamInv
<1>5. CASE ~cancelled
  <2>1. PICK w \in StreamEvents :
          /\ w.type = e.type /\ w.text = e.text /\ (orchestrator.first => w.metadata)
          /\ OrchestratorGoes("sending", w, FALSE)
    <3>1. CASE orchestrator.first \/ IsTerminal(e)
      BY <1>3, <1>5, <3>1, EventsTyped DEF Wrap
    <3>2. CASE ~(orchestrator.first \/ IsTerminal(e))
      BY <1>3, <1>5, <3>2 DEF Wrap
    <3> QED
      BY <3>1, <3>2
  <2>2. /\ orchestrator'.at = "sending" /\ orchestrator'.event = w
        /\ orchestrator' \in [at : Places, event : StreamEvents, first : BOOLEAN]
    BY <2>1, GoesTo DEF Places
  <2>3. Orchestrating'
    BY <1>1, <1>2, <2>1, <2>2 DEF StreamInv, Orchestrating, Coming, Ended, IsTerminal
  <2>4. First'
    BY <1>1, <2>1, <2>2 DEF StreamInv, First
  <2>5. Unbroken /\ InHand' = InHand
    BY <1>1, <2>1, <2>2 DEF Unbroken, InHand
  <2> QED
    BY <1>1, <2>2, <2>3, <2>4, <2>5, Moving DEF StreamInv
<1> QED
  BY <1>4, <1>5

LEMMA GatewayPopped ==
    ASSUME GatewaySends, gateway.out # <<>>,
           gateway' = Sender(Tail(gateway.out), gateway.then),
           UNCHANGED <<route, provider, tail>>
    PROVE  GatewaySends' /\ gateway'.out = Tail(gateway.out)
<1>1. Sendable(gateway.out)
  BY DEF GatewaySends
<1>2. /\ Sendable(Tail(gateway.out))
      /\ EndsStream(Tail(gateway.out)) =>
           EndsStream(gateway.out) /\ Last(Tail(gateway.out)) = Last(gateway.out)
      /\ Tail(gateway.out) # <<>> => EndsStream(Tail(gateway.out))
  BY <1>1, Popped, NoEvents
<1>3. gateway'.out = Tail(gateway.out) /\ gateway'.then = gateway.then
  BY SenderIs
<1>4. gateway' \in [out : Seq(StreamEvents), then : {"receive", "return"}]
  <2>1. Tail(gateway.out) \in Seq(StreamEvents) /\ gateway.then \in {"receive", "return"}
    BY <1>2 DEF Sendable, GatewaySends
  <2> QED
    BY <2>1 DEF Sender
<1>5. /\ Sendable(gateway'.out)
      /\ EndsStream(gateway'.out) =>
           EndsStream(gateway.out) /\ Last(gateway'.out) = Last(gateway.out)
      /\ gateway'.out # <<>> => EndsStream(gateway'.out)
  BY <1>2, <1>3
<1>6. gateway'.then = "return" \/ EndsStream(gateway'.out) => Returned(provider')
  BY <1>3, <1>5 DEF GatewaySends
<1>7. EndsStream(gateway'.out) /\ Last(gateway'.out).type = "done" => tail' = <<>>
  BY <1>5 DEF GatewaySends
<1>8. tail' # <<>> => route' = "public"
  BY DEF GatewaySends
<1> QED
  BY <1>3, <1>4, <1>5, <1>6, <1>7, <1>8 DEF GatewaySends

LEMMA OrchestratorReceivesKeeps ==
    ASSUME StreamInv, OrchestratorReceives
    PROVE  StreamInv'
<1>1. /\ orchestrator.at = "waiting"
      /\ UNCHANGED <<branch, route, provider, read, tail, out, cancelled, caller, received, draft>>
  BY DEF OrchestratorReceives, OnlyOrchestrator
<1>2. branch = "deep"
  BY <1>1, OnlyDeep
<1>3. Coming
  BY <1>1 DEF StreamInv, Orchestrating
<1>4. gateway.out # <<>>
  <2>1. SUFFICES ASSUME gateway.out = <<>>, Returned(gateway)
                 PROVE  FALSE
    BY DEF OrchestratorReceives
  <2>2. gateway.then = "return" /\ ~EndsStream(gateway.out)
    BY <2>1, SenderIs, NoEvents DEF Returned
  <2> QED
    BY <1>3, <2>2 DEF StreamInv, GatewaySends, Coming
<1>5. Sendable(gateway.out) /\ GatewaySends
  BY DEF StreamInv, GatewaySends
<1>6. PICK e \in StreamEvents :
        /\ e = Head(gateway.out) /\ OrchestratorGoes("received", e, orchestrator.first)
        /\ gateway' = Sender(Tail(gateway.out), gateway.then)
  BY <1>4, <1>5, Popped DEF OrchestratorReceives
<1>7. GatewaySends' /\ gateway'.out = Tail(gateway.out)
  BY <1>1, <1>4, <1>5, <1>6, GatewayPopped
<1>8. /\ FirstText(gateway.out) = e.text
      /\ FirstText(Tail(gateway.out)) = <<>>
      /\ IsTerminal(e) => Tail(gateway.out) = <<>> /\ Last(gateway.out) = e
      /\ Tail(gateway.out) = <<>> => (EndsStream(gateway.out) <=> IsTerminal(e))
      /\ Tail(gateway.out) # <<>> => EndsStream(Tail(gateway.out))
  BY <1>4, <1>5, <1>6, Popped
<1>9. /\ orchestrator'.at = "received" /\ orchestrator'.event = e
      /\ orchestrator'.first = orchestrator.first
      /\ orchestrator' \in [at : Places, event : StreamEvents, first : BOOLEAN]
  BY <1>6, GoesTo DEF StreamInv, Orchestrating, Places
<1>10. ~IsTerminal(e) => Coming'
  BY <1>1, <1>3, <1>7, <1>8 DEF Coming
<1>11. IsTerminal(e) => Ended(e)'
  <2>1. SUFFICES ASSUME IsTerminal(e)
                 PROVE  Ended(e)'
    OBVIOUS
  <2>2. Tail(gateway.out) = <<>> /\ EndsStream(gateway.out) /\ Last(gateway.out) = e
    BY <1>8, <2>1
  <2>3. Returned(provider) /\ (e.type = "done" => tail = <<>>)
    BY <1>5, <2>2 DEF GatewaySends
  <2>4. e.type # "error" => e.type = "done"
    BY <2>1 DEF IsTerminal
  <2> QED
    BY <1>1, <1>7, <2>2, <2>3, <2>4 DEF Ended
<1>12. Orchestrating'
  BY <1>1, <1>2, <1>9, <1>10, <1>11 DEF Orchestrating
<1>13. Queue'
  BY <1>1, <1>9 DEF StreamInv, Queue
<1>14. First'
  BY <1>1, <1>9 DEF StreamInv, First
<1>15. Chain'
  <2>1. PICK a, b, c, d, x \in 0..read : Links(a, b, c, d, x)
    BY DEF StreamInv, Chain
  <2>2. read \in Nat
    BY MaxDeltasAssumption DEF StreamInv
  <2>3. Unbroken /\ InHand = <<>> /\ InHand' = e.text
    BY <1>1, <1>9 DEF Unbroken, InHand
  <2>4. b = c
    <3>1. b \in Nat /\ c \in Nat /\ b <= c /\ Pieces(b, c) = <<>>
      BY <2>1, <2>2, <2>3 DEF Links
    <3> QED
      BY <3>1, NoPieces
  <2>5. Pieces(d, d) = <<>>
    BY <2>2, NoPieces
  <2>6. /\ draft' = Pieces(0, a) /\ a <= b /\ FirstText(out') = Pieces(a, b)
        /\ d <= x /\ tail' = Pieces(d, x) /\ FirstText(provider'.out) = Pieces(x, read')
    BY <1>1, <2>1 DEF Links
  <2>7. b <= d /\ InHand' = Pieces(b, d) /\ d <= d
    <3>1. c <= d /\ FirstText(gateway.out) = Pieces(c, d)
      BY <2>1 DEF Links
    <3>2. d \in Nat
      BY <2>2
    <3> QED
      BY <1>8, <2>3, <2>4, <3>1, <3>2
  <2>8. FirstText(gateway'.out) = Pieces(d, d)
    BY <1>7, <1>8, <2>5
  <2>9. Links(a, b, d, d, x)'
    BY <2>6, <2>7, <2>8 DEF Links
  <2> QED
    BY <1>1, <2>1, <2>9 DEF Chain
<1>16. DoneIsAll'
  <2>1. Written' = Written
    BY <1>1 DEF Written
  <2> QED
    BY <1>1, <2>1 DEF StreamInv, DoneIsAll
<1>17. ProviderSends'
  BY <1>1 DEF StreamInv, ProviderSends
<1>18. /\ branch' \in {"deep", "generic"} /\ route' \in {"public", "private", "moved"}
       /\ read' \in 0..MaxDeltas /\ cancelled' \in BOOLEAN
       /\ caller' \in {"waiting", "refused", "reading", "gone"}
  BY <1>1 DEF StreamInv
<1> QED
  BY <1>7, <1>12, <1>13, <1>14, <1>15, <1>16, <1>17, <1>18 DEF StreamInv

LEMMA SendKeeps ==
    ASSUME StreamInv, Send
    PROVE  StreamInv'
<1>1. PICK event \in StreamEvents, at \in Places :
        /\ event = orchestrator.event
        /\ at = IF IsTerminal(event) THEN "returned" ELSE "top"
        /\ orchestrator.at = "sending" /\ out = <<>> /\ out' = <<event>>
        /\ OrchestratorGoes(at, Done, FALSE)
        /\ UNCHANGED <<branch, route, provider, read, gateway, tail, cancelled, caller, received,
                       draft>>
  BY DEF Send, OnlyOrchestrator, StreamInv, Orchestrating, Places
<1>2. branch = "deep"
  BY <1>1, OnlyDeep
<1>3. /\ orchestrator'.at = at
      /\ orchestrator' \in [at : Places, event : StreamEvents, first : BOOLEAN]
  BY <1>1, GoesTo, EventsTyped
<1>4. IF IsTerminal(event) THEN Ended(event) ELSE Coming
  BY <1>1 DEF StreamInv, Orchestrating
<1>5. /\ <<event>> \in Seq(StreamEvents) /\ Len(<<event>>) = 1 /\ <<event>> # <<>>
      /\ <<event>>[1] = event /\ FirstText(<<event>>) = event.text
      /\ NoTerminal(<<event>>) <=> ~IsTerminal(event)
  BY OneEvent
<1>6. Orchestrating'
  BY <1>1, <1>2, <1>3, <1>4 DEF Orchestrating, Coming
<1>7. Queue'
  <2>1. NoTerminal(received) /\ received \in Seq(StreamEvents)
    BY <1>1, <1>2 DEF StreamInv, Queue
  <2>2. IsTerminal(event) => Passed(event)'
    BY <1>1, <1>4 DEF Passed, Ended
  <2>3. out' \in Seq(StreamEvents) /\ Len(out') <= 1 /\ out'[1] = event /\ out' # <<>>
    BY <1>1, <1>5
  <2>4. NoTerminal(received') /\ (~IsTerminal(event) => NoTerminal(out'))
    BY <1>1, <1>5, <2>1
  <2> QED
    BY <1>1, <1>2, <1>3, <2>1, <2>2, <2>3, <2>4 DEF Queue
<1>8. First'
  BY <1>1, <1>2, <1>5 DEF StreamInv, First
<1>9. Chain'
  <2>1. PICK a, b, c, d, x \in 0..read : Links(a, b, c, d, x)
    BY DEF StreamInv, Chain
  <2>2. read \in Nat
    BY MaxDeltasAssumption DEF StreamInv
  <2>3. Unbroken /\ InHand = event.text /\ InHand' = <<>>
    BY <1>1, <1>3 DEF Unbroken, InHand
  <2>4. a = b
    <3>1. a \in Nat /\ b \in Nat /\ a <= b /\ Pieces(a, b) = <<>>
      BY <1>1, <2>1, <2>2, NoEvents DEF Links
    <3> QED
      BY <3>1, NoPieces
  <2>5. Pieces(c, c) = <<>> /\ c <= c
    BY <2>2, NoPieces
  <2>6. a <= c /\ FirstText(out') = Pieces(a, c)
    <3>1. b <= c /\ InHand = Pieces(b, c)
      BY <2>1, <2>3 DEF Links
    <3> QED
      BY <1>1, <1>5, <2>3, <2>4, <3>1
  <2>7. /\ draft' = Pieces(0, a) /\ c <= d /\ FirstText(gateway'.out) = Pieces(c, d)
        /\ d <= x /\ tail' = Pieces(d, x) /\ FirstText(provider'.out) = Pieces(x, read')
    BY <1>1, <2>1 DEF Links
  <2>8. Links(a, c, c, d, x)'
    BY <2>3, <2>5, <2>6, <2>7 DEF Links
  <2> QED
    BY <1>1, <2>1, <2>8 DEF Chain
<1>10. DoneIsAll'
  <2>1. Written' = Written
    BY <1>1 DEF Written
  <2>2. event.type = "done" => provider.then = "return" /\ draft = Written
    <3>1. SUFFICES ASSUME event.type = "done"
                   PROVE  provider.then = "return" /\ draft = Written
      OBVIOUS
    <3>2. IsTerminal(event) /\ event.text = <<>>
      BY <3>1, Terminals DEF IsTerminal
    <3>3. Returned(provider) /\ gateway.out = <<>> /\ tail = <<>>
      BY <1>4, <3>1, <3>2 DEF Ended
    <3>4. provider.out = <<>> /\ provider.then = "return"
      BY <3>3, SenderIs DEF Returned
    <3>5. Unbroken /\ InHand = <<>>
      BY <1>1, <3>2 DEF Unbroken, InHand
    <3>6. read \in Nat
      BY MaxDeltasAssumption DEF StreamInv
    <3> QED
      BY <1>1, <3>3, <3>4, <3>5, <3>6, NoEvents, AllIsRead DEF StreamInv
  <2>3. out'[1] = event
    BY <1>1, <1>5
  <2> QED
    BY <1>1, <2>1, <2>2, <2>3 DEF StreamInv, DoneIsAll
<1>11. ProviderSends' /\ GatewaySends'
  BY <1>1 DEF StreamInv, ProviderSends, GatewaySends
<1>12. /\ branch' \in {"deep", "generic"} /\ route' \in {"public", "private", "moved"}
       /\ read' \in 0..MaxDeltas /\ cancelled' \in BOOLEAN
       /\ caller' \in {"waiting", "refused", "reading", "gone"}
  BY <1>1 DEF StreamInv
<1> QED
  BY <1>6, <1>7, <1>8, <1>9, <1>10, <1>11, <1>12 DEF StreamInv

\* The event of the cancellation.
LEMMA CanceledIs ==
    /\ Canceled \in StreamEvents /\ Canceled.type = "error" /\ Canceled.text = <<>>
    /\ Canceled.metadata /\ IsTerminal(Canceled)
  BY EventsTyped, Terminals DEF Canceled

LEMMA CancelKeeps ==
    ASSUME StreamInv, Cancel
    PROVE  StreamInv'
<1>1. /\ orchestrator.at = "cancelling"
      /\ UNCHANGED <<branch, route, provider, read, gateway, tail, cancelled, caller, received,
                     draft>>
  BY DEF Cancel, OnlyOrchestrator
<1>2. branch = "deep" /\ cancelled
  BY <1>1, OnlyDeep DEF StreamInv, Orchestrating
<1>3. NoTerminal(received) /\ received \in Seq(StreamEvents)
  BY <1>1, <1>2 DEF StreamInv, Queue
<1>4. Written' = Written
  BY <1>1 DEF Written
<1>5. ProviderSends' /\ GatewaySends'
  BY <1>1 DEF StreamInv, ProviderSends, GatewaySends
<1>6. /\ branch' \in {"deep", "generic"} /\ route' \in {"public", "private", "moved"}
      /\ read' \in 0..MaxDeltas /\ cancelled' \in BOOLEAN
      /\ caller' \in {"waiting", "refused", "reading", "gone"}
  BY <1>1 DEF StreamInv
<1>7. CASE out = <<>>
  <2>1. PICK event \in StreamEvents :
          /\ event.type = "error" /\ event.text = <<>> /\ event.metadata /\ IsTerminal(event)
          /\ out' = <<event>> /\ OrchestratorGoes("returned", Done, FALSE)
    BY <1>7, CanceledIs DEF Cancel
  <2>2. /\ orchestrator'.at = "returned"
        /\ orchestrator' \in [at : Places, event : StreamEvents, first : BOOLEAN]
    BY <2>1, GoesTo, EventsTyped DEF Places
  <2>3. /\ out' \in Seq(StreamEvents) /\ Len(out') <= 1 /\ out' # <<>> /\ out'[1] = event
        /\ FirstText(out') = <<>>
    BY <2>1, OneEvent
  <2>4. Orchestrating'
    BY <1>1, <1>2, <2>2 DEF Orchestrating
  <2>5. Queue'
    <3>1. Passed(event)'
      BY <1>1, <1>2, <2>1 DEF Passed
    <3>2. NoTerminal(received')
      BY <1>1, <1>3
    <3> QED
      BY <1>1, <1>2, <1>3, <2>2, <2>3, <3>1, <3>2 DEF Queue
  <2>6. First'
    BY <1>1, <1>2, <2>1, <2>2, <2>3 DEF StreamInv, First
  <2>7. Chain'
    <3>1. ~Unbroken' /\ FirstText(out') = FirstText(out)
      BY <1>7, <2>2, <2>3, NoEvents DEF Unbroken
    <3> QED
      BY <1>1, <3>1, ChainStays DEF StreamInv
  <2>8. DoneIsAll'
    BY <1>1, <1>4, <2>1, <2>3 DEF StreamInv, DoneIsAll
  <2> QED
    BY <1>5, <1>6, <2>4, <2>5, <2>6, <2>7, <2>8 DEF StreamInv
<1>8. CASE out # <<>>
  <2>1. out' = <<>> /\ orchestrator' = orchestrator
    BY <1>8 DEF Cancel
  <2>2. Orchestrating'
    BY <1>1, <2>1 DEF StreamInv, Orchestrating
  <2>3. Queue'
    <3>1. out' \in Seq(StreamEvents) /\ Len(out') <= 1 /\ NoTerminal(out')
      BY <2>1, NoEvents
    <3>2. NoTerminal(received')
      BY <1>1, <1>3
    <3> QED
      BY <1>1, <1>2, <1>3, <2>1, <3>1, <3>2 DEF Queue
  <2>4. First'
    BY <1>1, <2>1 DEF StreamInv, First
  <2>5. Chain'
    <3>1. PICK a, b, c, d, x \in 0..read : Links(a, b, c, d, x)
      BY DEF StreamInv, Chain
    <3>2. a \in Nat /\ read \in Nat
      BY MaxDeltasAssumption DEF StreamInv
    <3>3. a <= a /\ Pieces(a, a) = <<>>
      BY <3>2, NoPieces
    <3>4. ~Unbroken' /\ FirstText(out') = <<>>
      BY <1>1, <2>1, NoEvents DEF Unbroken
    <3>5. Links(a, a, c, d, x)'
      BY <1>1, <3>1, <3>3, <3>4 DEF Links
    <3> QED
      BY <1>1, <3>1, <3>5 DEF Chain
  <2>6. DoneIsAll'
    BY <1>1, <1>4, <2>1 DEF StreamInv, DoneIsAll
  <2> QED
    BY <1>5, <1>6, <2>2, <2>3, <2>4, <2>5, <2>6 DEF StreamInv
<1> QED
  BY <1>7, <1>8

-----------------------------------------------------------------------------
(* The caller keeps the invariant.                                          *)

\* What is read is the end of what was read.
LEMMA Appended ==
    ASSUME NEW s \in Seq(StreamEvents), NEW e \in StreamEvents
    PROVE  /\ Append(s, e) \in Seq(StreamEvents) /\ Append(s, e) # <<>>
           /\ Len(s) \in Nat /\ Len(Append(s, e)) = Len(s) + 1
           /\ \A i \in 1..Len(s) : Append(s, e)[i] = s[i]
           /\ Append(s, e)[Len(s) + 1] = e /\ Last(Append(s, e)) = e
           /\ s = <<>> => Append(s, e)[1] = e
           /\ s # <<>> => Append(s, e)[1] = s[1]
<1>1. /\ Append(s, e) \in Seq(StreamEvents) /\ Append(s, e) # <<>>
      /\ Len(s) \in Nat /\ Len(Append(s, e)) = Len(s) + 1
      /\ \A i \in 1..Len(s) : Append(s, e)[i] = s[i]
      /\ Append(s, e)[Len(s) + 1] = e
  BY AppendProperties, LenProperties
<1>2. Last(Append(s, e)) = e
  BY <1>1 DEF Last
<1>3. s = <<>> => Append(s, e)[1] = e
  BY <1>1, EmptySeq
<1>4. s # <<>> => Append(s, e)[1] = s[1]
  <2>1. s # <<>> => 1 \in 1..Len(s)
    BY <1>1, EmptySeq
  <2> QED
    BY <1>1, <2>1
<1> QED
  BY <1>1, <1>2, <1>3, <1>4

\* A terminal event in the history of a deep draft is the last thing read.
LEMMA NothingAfterTheEnd ==
    ASSUME StreamInv, branch = "deep", out # <<>>
    PROVE  NoTerminal(received) /\ received \in Seq(StreamEvents)
  BY DEF StreamInv, Queue

LEMMA OutHolds ==
    ASSUME StreamInv, out # <<>>
    PROVE  /\ Head(out) \in StreamEvents /\ out[1] = Head(out) /\ Tail(out) = <<>>
           /\ Len(out) = 1 /\ FirstText(out) = Head(out).text
<1>1. out \in Seq(StreamEvents) /\ Len(out) = 1
  <2>1. out \in Seq(StreamEvents) /\ Len(out) <= 1
    BY DEF StreamInv, Queue
  <2>2. Len(out) \in Nat \ {0}
    BY <2>1, EmptySeq
  <2>3. \A n \in Nat \ {0} : n <= 1 => n = 1
    OBVIOUS
  <2> QED
    BY <2>1, <2>2, <2>3, Zenon
<1>2. PICK x \in StreamEvents : out = <<x>>
  BY <1>1
<1> QED
  BY <1>1, <1>2, OneEvent

LEMMA ReadKeeps ==
    ASSUME StreamInv, Read
    PROVE  StreamInv'
<1>1. PICK e \in StreamEvents :
        /\ out # <<>> /\ e = Head(out) /\ e = out[1] /\ FirstText(out) = e.text
        /\ received' = Append(received, e) /\ draft' = draft \o e.text /\ out' = <<>>
        /\ UNCHANGED <<branch, route, provider, read, gateway, tail, orchestrator, cancelled,
                       caller>>
  BY OutHolds DEF Read
<1>2. branch = "deep"
  BY <1>1 DEF StreamInv, Queue
<1>3. NoTerminal(received) /\ received \in Seq(StreamEvents)
  BY <1>1, <1>2, NothingAfterTheEnd
<1>4. /\ received' \in Seq(StreamEvents) /\ received' # <<>>
      /\ Len(received) \in Nat /\ Len(received') = Len(received) + 1
      /\ \A i \in 1..Len(received) : received'[i] = received[i]
      /\ received'[Len(received) + 1] = e /\ Last(received') = e
      /\ received = <<>> => received'[1] = e
      /\ received # <<>> => received'[1] = received[1]
  BY <1>1, <1>3, Appended
<1>5. \A i \in 1..(Len(received') - 1) : ~IsTerminal(received'[i])
  BY <1>3, <1>4 DEF NoTerminal
<1>6. ProviderSends' /\ GatewaySends' /\ Orchestrating'
  BY <1>1 DEF StreamInv, ProviderSends, GatewaySends, Orchestrating, Coming, Ended
<1>7. Queue'
  <2>1. out' \in Seq(StreamEvents) /\ Len(out') <= 1 /\ NoTerminal(out')
    BY <1>1, NoEvents
  <2>2. CASE orchestrator.at = "returned"
    <3>1. Passed(e)
      BY <1>1, <1>2, <2>2 DEF StreamInv, Queue
    <3>2. Passed(e)'
      BY <1>1, <3>1 DEF Passed, Ended
    <3>3. Passed(Last(received))'
      BY <1>4, <3>2
    <3> QED
      BY <1>1, <1>2, <1>4, <1>5, <2>1, <2>2, <3>3 DEF Queue
  <2>3. CASE orchestrator.at # "returned"
    <3>1. ~IsTerminal(e) /\ orchestrator.at \notin {"preparing", "refused"}
      <4>1. NoTerminal(out) /\ Len(out) = 1
        BY <1>1, <1>2, <2>3, OutHolds DEF StreamInv, Queue
      <4> QED
        BY <1>1, <4>1 DEF NoTerminal, StreamInv, Queue
    <3>2. NoTerminal(received')
      <4> SUFFICES ASSUME NEW i \in 1..Len(received')
                   PROVE  ~IsTerminal(received'[i])
        BY DEF NoTerminal
      <4>1. i \in 1..(Len(received') - 1) \/ i = Len(received) + 1
        BY <1>4
      <4> QED
        BY <1>4, <1>5, <3>1, <4>1
    <3> QED
      BY <1>1, <1>2, <1>4, <2>1, <2>3, <3>1, <3>2 DEF Queue
  <2> QED
    BY <2>2, <2>3
<1>8. First'
  BY <1>1, <1>2, <1>4 DEF StreamInv, First
<1>9. Chain'
  <2>1. PICK a, b, c, d, x \in 0..read : Links(a, b, c, d, x)
    BY DEF StreamInv, Chain
  <2>2. read \in Nat /\ 0 \in Nat /\ a \in Nat /\ b \in Nat /\ 0 <= a
    BY MaxDeltasAssumption DEF StreamInv
  <2>3. a <= b /\ draft = Pieces(0, a) /\ e.text = Pieces(a, b)
    BY <1>1, <2>1 DEF Links
  <2>4. Pieces(0, a) \o Pieces(a, b) = Pieces(0, b)
    BY <2>2, <2>3, PiecesJoin
  <2>5. draft' = Pieces(0, b)
    BY <1>1, <2>3, <2>4
  <2>6. b <= b /\ FirstText(out') = Pieces(b, b)
    BY <1>1, <2>2, NoPieces, NoEvents
  <2>7. InHand' = InHand /\ (Unbroken' <=> Unbroken)
    BY <1>1 DEF InHand, Unbroken
  <2>8. Links(b, b, c, d, x)'
    BY <1>1, <2>1, <2>5, <2>6, <2>7 DEF Links
  <2> QED
    BY <1>1, <2>1, <2>8 DEF Chain
<1>10. DoneIsAll'
  <2>1. Written' = Written
    BY <1>1 DEF Written
  <2>2. SUFFICES ASSUME NEW i \in 1..Len(received'), received'[i].type = "done"
                 PROVE  provider.then = "return" /\ draft' = Written
    BY <1>1, <2>1 DEF DoneIsAll
  <2>3. i = Len(received) + 1
    BY <1>4, <1>5, <2>2 DEF IsTerminal
  <2>4. e.type = "done"
    BY <1>4, <2>2, <2>3
  <2>5. e.text = <<>>
    BY <2>4, Terminals DEF IsTerminal
  <2>6. provider.then = "return" /\ draft = Written
    BY <1>1, <2>4 DEF StreamInv, DoneIsAll
  <2>7. draft \in Seq(Nat)
    <3>1. read \in Nat /\ 0 \in Nat /\ 0 <= read
      BY MaxDeltasAssumption DEF StreamInv
    <3> QED
      BY <2>6, <3>1, PiecesAre DEF Written
  <2> QED
    BY <1>1, <2>5, <2>6, <2>7, ConcatEmptySeq
<1>11. /\ branch' \in {"deep", "generic"} /\ route' \in {"public", "private", "moved"}
       /\ read' \in 0..MaxDeltas /\ cancelled' \in BOOLEAN
       /\ caller' \in {"waiting", "refused", "reading", "gone"}
  BY <1>1 DEF StreamInv
<1> QED
  BY <1>6, <1>7, <1>8, <1>9, <1>10, <1>11 DEF StreamInv

LEMMA ReadFromGatewayKeeps ==
    ASSUME StreamInv, ReadFromGateway
    PROVE  StreamInv'
<1>1. Sendable(gateway.out) /\ GatewaySends
  BY DEF StreamInv, GatewaySends
<1>2. PICK e \in StreamEvents :
        /\ orchestrator.at = "absent" /\ gateway.out # <<>>
        /\ e = Head(gateway.out) /\ FirstText(gateway.out) = e.text
        /\ received' = Append(received, e) /\ draft' = draft \o e.text
        /\ gateway' = Sender(Tail(gateway.out), gateway.then)
        /\ UNCHANGED <<branch, route, provider, read, tail, orchestrator, out, cancelled, caller>>
  BY <1>1, Popped DEF ReadFromGateway
<1>3. branch # "deep" /\ out = <<>> /\ received \in Seq(StreamEvents)
  BY <1>2 DEF StreamInv, Orchestrating, Queue
<1>4. /\ received' \in Seq(StreamEvents) /\ Len(received) \in Nat
      /\ Len(received') = Len(received) + 1
      /\ \A i \in 1..Len(received) : received'[i] = received[i]
      /\ received'[Len(received) + 1] = e
  BY <1>2, <1>3, Appended
<1>5. GatewaySends' /\ gateway'.out = Tail(gateway.out)
  BY <1>1, <1>2, GatewayPopped
<1>6. ProviderSends' /\ Orchestrating' /\ Queue' /\ First'
  BY <1>2, <1>3, <1>4 DEF StreamInv, ProviderSends, Orchestrating, Queue, First
<1>7. PICK a, b, c, d, x \in 0..read : Links(a, b, c, d, x)
  BY DEF StreamInv, Chain
<1>8. read \in Nat /\ 0 \in Nat /\ c \in Nat /\ d \in Nat /\ x \in Nat /\ 0 <= c
  BY MaxDeltasAssumption DEF StreamInv
<1>9. Unbroken /\ InHand = <<>> /\ InHand' = <<>> /\ Unbroken' /\ FirstText(out) = <<>>
  BY <1>2, <1>3, NoEvents DEF Unbroken, InHand
<1>10. a = c /\ b = c
  <2>1. /\ a \in Nat /\ b \in Nat /\ a <= b /\ Pieces(a, b) = <<>>
        /\ b <= c /\ Pieces(b, c) = <<>>
    BY <1>7, <1>8, <1>9 DEF Links
  <2>2. a = b
    BY <2>1, NoPieces
  <2>3. b = c
    BY <1>8, <2>1, NoPieces
  <2> QED
    BY <2>2, <2>3
<1>11. c <= d /\ draft = Pieces(0, c) /\ e.text = Pieces(c, d)
  BY <1>2, <1>7, <1>10 DEF Links
<1>12. Chain'
  <2>1. draft' = Pieces(0, d)
    <3>1. Pieces(0, c) \o Pieces(c, d) = Pieces(0, d)
      BY <1>8, <1>11, PiecesJoin
    <3> QED
      BY <1>2, <1>11, <3>1
  <2>2. d <= d /\ Pieces(d, d) = <<>>
    BY <1>8, NoPieces
  <2>3. FirstText(gateway'.out) = <<>>
    BY <1>1, <1>2, <1>5, Popped
  <2>4. FirstText(out') = <<>>
    BY <1>2, <1>9
  <2>5. d <= x /\ tail' = Pieces(d, x) /\ FirstText(provider'.out) = Pieces(x, read')
    BY <1>2, <1>7 DEF Links
  <2>6. Links(d, d, d, d, x)'
    BY <1>9, <2>1, <2>2, <2>3, <2>4, <2>5 DEF Links
  <2> QED
    BY <1>2, <1>7, <2>6 DEF Chain
<1>13. DoneIsAll'
  <2>1. Written' = Written
    BY <1>2 DEF Written
  <2>2. SUFFICES ASSUME NEW i \in 1..Len(received'), received'[i].type = "done"
                 PROVE  provider.then = "return" /\ draft' = Written
    BY <1>2, <1>3, <2>1 DEF DoneIsAll
  <2>3. e.text = <<>> => draft' = draft
    <3>1. draft \in Seq(Nat)
      BY <1>8, <1>11, PiecesAre
    <3> QED
      BY <1>2, <3>1, ConcatEmptySeq
  <2>4. CASE i \in 1..Len(received)
    <3>1. provider.then = "return" /\ draft = Written
      BY <1>4, <2>2, <2>4 DEF StreamInv, DoneIsAll
    <3>2. c = read
      <4>1. 0 <= read
        BY <1>8
      <4>2. Len(Pieces(0, c)) = c - 0
        BY <1>8, PiecesAre
      <4>3. Len(Pieces(0, read)) = read - 0
        BY <1>8, <4>1, PiecesAre
      <4> QED
        BY <1>8, <1>11, <3>1, <4>2, <4>3 DEF Written
    <3>3. e.text = <<>>
      <4>1. c = d
        BY <1>8, <1>11, <3>2
      <4> QED
        BY <1>8, <1>11, <4>1, NoPieces
    <3> QED
      BY <2>3, <3>1, <3>3
  <2>5. CASE i \notin 1..Len(received)
    <3>1. e.type = "done"
      BY <1>4, <2>2, <2>5
    <3>2. IsTerminal(e) /\ e.text = <<>>
      BY <3>1, Terminals DEF IsTerminal
    <3>3. EndsStream(gateway.out) /\ Last(gateway.out) = e
      BY <1>1, <1>2, <3>2, Popped
    <3>4. Returned(provider) /\ tail = <<>>
      BY <1>1, <3>1, <3>3 DEF GatewaySends
    <3>5. provider.out = <<>> /\ provider.then = "return"
      BY <3>4, SenderIs DEF Returned
    <3>6. draft = Written
      BY <1>2, <1>8, <1>9, <3>2, <3>4, <3>5, NoEvents, AllIsRead DEF StreamInv
    <3> QED
      BY <2>3, <3>2, <3>5, <3>6
  <2> QED
    BY <2>4, <2>5
<1>14. /\ branch' \in {"deep", "generic"} /\ route' \in {"public", "private", "moved"}
       /\ read' \in 0..MaxDeltas /\ cancelled' \in BOOLEAN
       /\ caller' \in {"waiting", "refused", "reading", "gone"}
  BY <1>2 DEF StreamInv
<1> QED
  BY <1>5, <1>6, <1>12, <1>13, <1>14 DEF StreamInv

LEMMA CallerCancelsKeeps ==
    ASSUME StreamInv, CallerCancels
    PROVE  StreamInv'
<1>1. /\ cancelled' = TRUE /\ caller' \in {"reading", "gone"}
      /\ UNCHANGED <<branch, route, provider, read, gateway, tail, orchestrator, out, received,
                     draft>>
  BY DEF CallerCancels
<1>2. ProviderSends' /\ GatewaySends' /\ Orchestrating' /\ First'
  BY <1>1 DEF StreamInv, ProviderSends, GatewaySends, Orchestrating, Coming, Ended, First
<1>3. Queue'
  <2>1. \A e : Passed(e) => Passed(e)'
    BY <1>1 DEF Passed
  <2> QED
    BY <1>1, <2>1 DEF StreamInv, Queue
<1>4. Chain'
  <2>1. InHand' = InHand /\ (Unbroken' <=> Unbroken)
    BY <1>1 DEF InHand, Unbroken
  <2> QED
    BY <1>1, <2>1, ChainStays DEF StreamInv
<1>5. DoneIsAll'
  <2>1. Written' = Written
    BY <1>1 DEF Written
  <2> QED
    BY <1>1, <2>1 DEF StreamInv, DoneIsAll
<1> QED
  BY <1>1, <1>2, <1>3, <1>4, <1>5 DEF StreamInv

-----------------------------------------------------------------------------
(* So does the start of a stream.                                           *)

LEMMA StartKeeps ==
    ASSUME StreamInv, Start
    PROVE  StreamInv'
<1>1. /\ orchestrator.at = "preparing" /\ Returned(provider) /\ Returned(gateway) /\ tail = <<>>
      /\ out = <<>> /\ received = <<>>
      /\ UNCHANGED <<branch, route, read, tail, cancelled, received, draft>>
  BY DEF StreamInv, Orchestrating, Queue, Start, Refuse, OpenFails, Open
<1>2. provider.out = <<>> /\ gateway.out = <<>>
  BY <1>1, SenderIs DEF Returned
<1>3. InHand = <<>> /\ Unbroken
  BY <1>1 DEF InHand, Unbroken
<1>4. /\ branch' \in {"deep", "generic"} /\ route' \in {"public", "private", "moved"}
      /\ read' \in 0..MaxDeltas /\ cancelled' \in BOOLEAN
  BY <1>1 DEF StreamInv
<1>5. CASE Refuse
  <2>1. /\ OrchestratorGoes("refused", Done, TRUE) /\ caller' = "refused"
        /\ UNCHANGED <<branch, route, provider, read, gateway, tail, out, cancelled, received, draft>>
    BY <1>5 DEF Refuse
  <2>2. /\ orchestrator'.at = "refused"
        /\ orchestrator' \in [at : Places, event : StreamEvents, first : BOOLEAN]
    BY <2>1, GoesTo, EventsTyped DEF Places
  <2>3. Orchestrating'
    BY <1>1, <2>1, <2>2 DEF Orchestrating
  <2>4. First'
    BY <1>1, <2>1, <2>2 DEF First
  <2>5. Unbroken' => Unbroken /\ InHand' = InHand
    BY <1>3, <2>2 DEF InHand
  <2> QED
    BY <1>1, <2>1, <2>2, <2>3, <2>4, <2>5, Moving
<1>6. CASE OpenFails
  <2>1. PICK event \in StreamEvents :
          /\ event.type = "error" /\ event.text = <<>> /\ event.metadata /\ IsTerminal(event)
          /\ out' = <<event>> /\ OrchestratorGoes("returned", Done, FALSE)
    BY <1>6, CanceledIs DEF OpenFails, Canceled
  <2>2. branch = "deep" /\ caller' = "reading" /\ provider' = provider /\ gateway' = gateway
    BY <1>6 DEF OpenFails
  <2>3. /\ orchestrator'.at = "returned"
        /\ orchestrator' \in [at : Places, event : StreamEvents, first : BOOLEAN]
    BY <2>1, GoesTo, EventsTyped DEF Places
  <2>4. /\ out' \in Seq(StreamEvents) /\ Len(out') <= 1 /\ out' # <<>> /\ out'[1] = event
        /\ FirstText(out') = <<>>
    BY <2>1, OneEvent
  <2>5. ProviderSends' /\ GatewaySends'
    BY <1>1, <2>2 DEF StreamInv, ProviderSends, GatewaySends
  <2>6. Orchestrating'
    BY <1>1, <2>2, <2>3 DEF Orchestrating
  <2>7. Queue'
    <3>1. Passed(event)'
      BY <1>1, <1>2, <2>1, <2>2 DEF Passed, Ended
    <3>2. received' \in Seq(StreamEvents) /\ NoTerminal(received')
      BY <1>1, NoEvents
    <3> QED
      BY <1>1, <2>2, <2>3, <2>4, <3>1, <3>2 DEF Queue
  <2>8. First'
    BY <1>1, <2>1, <2>4 DEF First
  <2>9. Chain'
    <3>1. ~Unbroken' /\ FirstText(out') = FirstText(out)
      BY <1>1, <2>3, <2>4, NoEvents DEF Unbroken
    <3> QED
      BY <1>1, <2>2, <3>1, ChainStays DEF StreamInv
  <2>10. DoneIsAll'
    BY <1>1, <2>1, <2>4, EmptySeq DEF DoneIsAll
  <2> QED
    BY <1>4, <2>2, <2>5, <2>6, <2>7, <2>8, <2>9, <2>10 DEF StreamInv
<1>7. CASE Open
  <2>1. PICK events \in Seq(StreamEvents), then \in {"read", "return"} :
          /\ provider' = Sender(events, then)
          /\ Sendable(events) /\ FirstText(events) = <<>>
          /\ events # <<>> => (EndsStream(events) <=> then = "return")
          /\ ~(events = <<>> /\ then = "return")
    <3>1. CASE provider' = Sender(<<>>, "read")
      BY <3>1, NoEvents
    <3>2. CASE provider' = Sender(<<Error>>, "return")
      <4>1. /\ <<Error>> \in Seq(StreamEvents) /\ Sendable(<<Error>>)
            /\ FirstText(<<Error>>) = <<>> /\ EndsStream(<<Error>>) /\ <<Error>> # <<>>
        BY EventsTyped, Terminals, OneEvent
      <4> QED
        BY <3>2, <4>1, Zenon
    <3> QED
      BY <1>7, <3>1, <3>2 DEF Open
  <2>2. PICK at \in Places :
          /\ at = IF branch = "deep" THEN "top" ELSE "absent"
          /\ OrchestratorGoes(at, Done, TRUE)
          /\ gateway' = Sender(<<>>, "receive") /\ caller' = "reading" /\ out' = out
    BY <1>7 DEF Open, Places
  <2>3. /\ orchestrator'.at = at /\ orchestrator'.first = TRUE
        /\ orchestrator' \in [at : Places, event : StreamEvents, first : BOOLEAN]
    BY <2>2, GoesTo, EventsTyped
  <2>4. provider'.out = events /\ provider'.then = then
    BY <2>1, SenderIs
  <2>5. ~Returned(provider')
    BY <2>1, <2>4, SenderIs DEF Returned
  <2>6. ProviderSends'
    <3>1. provider' \in [out : Seq(StreamEvents), then : {"read", "return"}]
      BY <2>1 DEF Sender
    <3> QED
      BY <2>1, <2>4, <3>1 DEF ProviderSends
  <2>7. gateway'.out = <<>> /\ gateway'.then = "receive"
    BY <2>2, SenderIs
  <2>8. GatewaySends'
    <3>1. gateway' \in [out : Seq(StreamEvents), then : {"receive", "return"}]
      BY <2>2, NoEvents DEF Sender
    <3> QED
      BY <1>1, <2>7, <3>1, NoEvents DEF GatewaySends
  <2>9. Orchestrating'
    BY <1>1, <2>2, <2>3, <2>5 DEF Orchestrating, Coming
  <2>10. Queue'
    <3>1. NoTerminal(received') /\ NoTerminal(out')
      BY <1>1, <2>2, NoEvents
    <3> QED
      BY <1>1, <2>2, <2>3, <3>1 DEF StreamInv, Queue
  <2>11. First'
    BY <1>1, <2>2, <2>3 DEF First
  <2>12. Chain'
    <3>1. InHand' = <<>>
      BY <2>2, <2>3 DEF InHand
    <3> QED
      BY <1>1, <1>2, <1>3, <2>1, <2>2, <2>4, <2>7, <3>1, NoEvents, ChainStays DEF StreamInv
  <2>13. DoneIsAll'
    BY <1>1, <2>2, EmptySeq DEF DoneIsAll
  <2> QED
    BY <1>4, <2>2, <2>6, <2>8, <2>9, <2>10, <2>11, <2>12, <2>13 DEF StreamInv
<1> QED
  BY <1>5, <1>6, <1>7 DEF Start

LEMMA StreamStarts == Init => StreamInv
<1> SUFFICES ASSUME Init
             PROVE  StreamInv
  OBVIOUS
<1>1. /\ provider.out = <<>> /\ provider.then = "return" /\ Returned(provider)
      /\ gateway.out = <<>> /\ gateway.then = "return" /\ Returned(gateway)
  BY SenderIs DEF Init, Returned
<1>2. ProviderSends /\ GatewaySends
  <2>1. provider \in [out : Seq(StreamEvents), then : {"read", "return"}]
    BY NoEvents DEF Init, Sender
  <2>2. gateway \in [out : Seq(StreamEvents), then : {"receive", "return"}]
    BY NoEvents DEF Init, Sender
  <2> QED
    BY <1>1, <2>1, <2>2, NoEvents DEF Init, ProviderSends, GatewaySends
<1>3. Orchestrating
  BY <1>1, EventsTyped DEF Init, Orchestrating, Places
<1>4. Queue /\ First
  BY NoEvents DEF Init, Queue, First
<1>5. Chain
  <2>1. Pieces(0, 0) = <<>>
    BY NoPieces
  <2>2. InHand = <<>>
    BY DEF Init, InHand
  <2>3. Links(0, 0, 0, 0, 0)
    BY <1>1, <2>1, <2>2, NoEvents DEF Init, Links
  <2> QED
    BY <2>3 DEF Init, Chain
<1>6. DoneIsAll
  BY EmptySeq DEF Init, DoneIsAll
<1>7. /\ branch \in {"deep", "generic"} /\ route \in {"public", "private", "moved"}
      /\ read \in 0..MaxDeltas /\ cancelled \in BOOLEAN
      /\ caller \in {"waiting", "refused", "reading", "gone"}
  <2>1. 0 \in 0..MaxDeltas
    BY MaxDeltasAssumption
  <2>2. read = 0
    BY DEF Init
  <2>3. read \in 0..MaxDeltas
    BY <2>1, <2>2
  <2> QED
    BY <2>3 DEF Init
<1> QED
  BY <1>2, <1>3, <1>4, <1>5, <1>6, <1>7 DEF StreamInv

LEMMA StreamKeeps == StreamInv /\ [Next]_vars => StreamInv'
<1> SUFFICES ASSUME StreamInv, [Next]_vars
             PROVE  StreamInv'
  OBVIOUS
<1>1. CASE UNCHANGED vars
  <2> USE <1>1 DEF vars, StreamInv
  <2>1. ProviderSends' /\ GatewaySends' /\ Orchestrating' /\ First'
    BY DEF ProviderSends, GatewaySends, Orchestrating, Coming, Ended, First
  <2>2. Queue'
    BY DEF Queue, Passed, Ended
  <2>3. Chain'
    <3>1. InHand' = InHand /\ (Unbroken' <=> Unbroken)
      BY DEF InHand, Unbroken
    <3> QED
      BY <3>1, ChainStays
  <2>4. DoneIsAll'
    BY DEF DoneIsAll, Written
  <2> QED
    BY <2>1, <2>2, <2>3, <2>4
<1>2. CASE Start
  BY <1>2, StartKeeps
<1>3. CASE ProviderStep
  BY <1>3, ProviderKeeps
<1>4. CASE GatewayStep
  BY <1>4, GatewayReceivesKeeps, GatewayEndsKeeps DEF GatewayStep
<1>5. CASE OrchestratorStep
  BY <1>5, LoopTopKeeps, SeesCancelKeeps, OrchestratorReceivesKeeps, WrapKeeps, SendKeeps,
     CancelKeeps DEF OrchestratorStep
<1>6. CASE CallerStep
  BY <1>6, ReadKeeps, ReadFromGatewayKeeps DEF CallerStep
<1>7. CASE CallerCancels
  BY <1>7, CallerCancelsKeeps
<1> QED
  BY <1>1, <1>2, <1>3, <1>4, <1>5, <1>6, <1>7 DEF Next

LEMMA StreamInvariant == RequestSpec => []StreamInv
<1>1. Spec => []StreamInv
  BY StreamStarts, StreamKeeps, PTL DEF Spec
<1> QED
  BY <1>1, RequestIsAStream, PTL

-----------------------------------------------------------------------------
(* The properties.                                                          *)

\* Where the events that were read and the one that waits meet.
LEMMA ReadAndWaiting ==
    ASSUME StreamInv
    PROVE  /\ received \in Seq(StreamEvents)
           /\ out = <<>> => received \o out = received
           /\ out # <<>> => /\ Len(received \o out) = Len(received) + 1
                            /\ \A i \in 1..Len(received) : (received \o out)[i] = received[i]
                            /\ (received \o out)[Len(received) + 1] = out[1]
                            /\ received \o out # <<>>
                            /\ Last(received \o out) = out[1]
<1>1. received \in Seq(StreamEvents) /\ out \in Seq(StreamEvents)
  BY DEF StreamInv, Queue
<1>2. CASE out = <<>>
  BY <1>1, <1>2, ConcatEmptySeq
<1>3. CASE out # <<>>
  <2>1. Len(received) \in Nat /\ Len(out) = 1
    BY <1>1, <1>3, LenProperties, OutHolds
  <2>2. /\ received \o out \in Seq(StreamEvents)
        /\ Len(received \o out) = Len(received) + 1
        /\ \A i \in 1..(Len(received) + 1) :
             (received \o out)[i] = IF i <= Len(received) THEN received[i]
                                    ELSE out[i - Len(received)]
    BY <1>1, <2>1, ConcatProperties
  <2>3. \A i \in 1..Len(received) : i \in 1..(Len(received) + 1) /\ i <= Len(received)
    BY <2>1
  <2>4. \A i \in 1..Len(received) : (received \o out)[i] = received[i]
    BY <2>2, <2>3
  <2>5. (received \o out)[Len(received) + 1] = out[1]
    <3>1. /\ Len(received) + 1 \in 1..(Len(received) + 1) /\ ~(Len(received) + 1 <= Len(received))
          /\ Len(received) + 1 - Len(received) = 1
      BY <2>1
    <3> QED
      BY <2>2, <3>1
  <2>6. received \o out # <<>>
    BY <2>1, <2>2, EmptySeq
  <2>7. Last(received \o out) = out[1]
    BY <2>2, <2>5 DEF Last
  <2> QED
    BY <1>1, <1>3, <2>2, <2>4, <2>5, <2>6, <2>7
<1> QED
  BY <1>1, <1>2, <1>3

(* A deep draft has at most one terminal event, nothing after it, and one   *)
(* when its channel is closed and empty (appendHighFreqStreamMetadata).     *)
THEOREM OneTerminalEvent == RequestSpec => []ExactlyOneTerminalEvent
<1>1. StreamInv => ExactlyOneTerminalEvent
  <2> SUFFICES ASSUME StreamInv, branch = "deep"
               PROVE  /\ \A i \in 1..(Len(received \o out) - 1) : ~IsTerminal((received \o out)[i])
                      /\ orchestrator.at = "returned" =>
                           /\ received \o out # <<>>
                           /\ IsTerminal((received \o out)[Len(received \o out)])
    BY DEF ExactlyOneTerminalEvent
  <2>1. Len(received) \in Nat
    BY LenProperties DEF StreamInv, Queue
  <2>2. CASE out # <<>>
    <3>1. NoTerminal(received) /\ (orchestrator.at = "returned" => IsTerminal(out[1]))
      BY <2>2 DEF StreamInv, Queue, Passed
    <3>2. \A i \in 1..(Len(received) + 1 - 1) : i \in 1..Len(received)
      BY <2>1
    <3> QED
      BY <2>2, <3>1, <3>2, ReadAndWaiting DEF NoTerminal
  <2>3. CASE out = <<>>
    <3>1. received \o out = received
      BY <2>3, ReadAndWaiting
    <3>2. \A i \in 1..(Len(received) - 1) : i \in 1..Len(received)
      BY <2>1
    <3>3. CASE orchestrator.at = "returned"
      BY <2>3, <3>1, <3>3 DEF StreamInv, Queue, Passed, Last
    <3>4. CASE orchestrator.at # "returned"
      BY <2>3, <3>1, <3>2, <3>4 DEF StreamInv, Queue, NoTerminal
    <3> QED
      BY <3>3, <3>4
  <2> QED
    BY <2>2, <2>3
<1> QED
  BY <1>1, StreamInvariant, PTL

(* The first event of a deep draft has the metadata                         *)
(* (wrapHighFreqStreamEvent, highFreqCanceledStreamEvent).                  *)
THEOREM MetadataComesFirst == RequestSpec => []FirstEventHasMetadata
<1>1. StreamInv => FirstEventHasMetadata
  BY DEF StreamInv, First, FirstEventHasMetadata
<1> QED
  BY <1>1, StreamInvariant, PTL

(* The caller reads the draft in order and without a gap, and all of it     *)
(* when it reads `done' (parseStream, Decorator.Stream).                    *)
THEOREM DraftIsComplete == RequestSpec => []CompleteWhenDone
<1>1. StreamInv => CompleteWhenDone
  <2> SUFFICES ASSUME StreamInv
               PROVE  CompleteWhenDone
    OBVIOUS
  <2>1. PICK a, b, c, d, x \in 0..read : Links(a, b, c, d, x)
    BY DEF StreamInv, Chain
  <2>2. /\ read \in Nat /\ a \in Nat /\ a <= read /\ 0 \in Nat /\ 0 <= a /\ 0 <= read
        /\ a - 0 = a /\ read - 0 = read /\ 0 + a = a /\ a \in 0..(read - 0)
    BY MaxDeltasAssumption DEF StreamInv
  <2>3. draft = Pieces(0, a)
    BY <2>1 DEF Links
  <2>4. draft \in Seq(Nat) /\ Len(draft) = a
    BY <2>2, <2>3, PiecesAre
  <2>5. Len(Written) = read
    BY <2>2, PiecesAre DEF Written
  <2>6. SubSeq(draft, 1, a) = draft
    BY <2>4, SubSeqFull
  <2>7. SubSeq(Written, 1, a) = draft
    <3>1. SubSeq(Pieces(0, read), 1, a) = Pieces(0, 0 + a)
      BY <2>2, PiecesCut
    <3> QED
      BY <2>2, <2>3, <3>1 DEF Written
  <2>8. IsPrefix(draft, Written)
    BY <2>2, <2>4, <2>5, <2>6, <2>7 DEF IsPrefix
  <2> QED
    BY <2>8 DEF StreamInv, DoneIsAll, CompleteWhenDone
<1> QED
  BY <1>1, StreamInvariant, PTL

(* A provider always finds the gateway there, and the gateway is left with  *)
(* an event only after a cancellation or a failure (Decorator.Stream).      *)
THEOREM OnlyTheseAreLeftBehind == RequestSpec => []LeftBehindOnlyWhen
<1>1. StreamInv => LeftBehindOnlyWhen
  <2> SUFFICES ASSUME StreamInv
               PROVE  LeftBehindOnlyWhen
    OBVIOUS
  <2>1. provider.out # <<>> => ~Returned(gateway)
    <3>1. SUFFICES ASSUME Returned(gateway)
                   PROVE  provider.out = <<>>
      OBVIOUS
    <3>2. gateway.then = "return"
      BY <3>1, SenderIs DEF Returned
    <3>3. Returned(provider)
      BY <3>2 DEF StreamInv, GatewaySends
    <3> QED
      BY <3>3, SenderIs DEF Returned
  <2>2. ASSUME gateway.out # <<>>, orchestrator.at = "returned", ~cancelled
        PROVE  /\ route = "public" /\ gateway.then = "return"
               /\ Last(received \o out).type = "error"
    <3>1. branch = "deep"
      BY <2>2, OnlyDeep
    <3>2. Ended(Last(received \o out))
      <4>1. CASE out # <<>>
        BY <2>2, <3>1, <4>1, ReadAndWaiting DEF StreamInv, Queue, Passed
      <4>2. CASE out = <<>>
        BY <2>2, <3>1, <4>2, ReadAndWaiting DEF StreamInv, Queue, Passed
      <4> QED
        BY <4>1, <4>2
    <3> QED
      BY <2>2, <3>2 DEF Ended, StreamInv, GatewaySends
  <2> QED
    BY <2>1, <2>2 DEF LeftBehindOnlyWhen
<1> QED
  BY <1>1, StreamInvariant, PTL

-----------------------------------------------------------------------------
(***************************************************************************)
(* The types of the stream.  The text of every event is a run of pieces:    *)
(* of what is on its way the chain says so; of what was read it has to be   *)
(* said.                                                                    *)
(***************************************************************************)
TextInv ==
    /\ received \in Seq(Events)
    /\ orchestrator.at \notin {"received", "sending"} => orchestrator.event = Done

LEMMA RunsAreTexts ==
    /\ <<>> \in Texts
    /\ \A a, b \in 0..MaxDeltas : Pieces(a, b) \in Texts
    /\ \A e \in StreamEvents : e.text \in Texts => e \in Events
    /\ \A e \in StreamEvents : IsTerminal(e) => e \in Events
<1>1. 0 \in 0..MaxDeltas /\ Pieces(0, 0) = <<>>
  BY MaxDeltasAssumption, NoPieces
<1>2. \A a, b \in 0..MaxDeltas : Pieces(a, b) \in Texts
  BY DEF Texts
<1>3. <<>> \in Texts
  BY <1>1, <1>2
<1>4. \A e \in StreamEvents : e.text \in Texts => e \in Events
  BY DEF StreamEvents, Events
<1> QED
  BY <1>2, <1>3, <1>4, Terminals

LEMMA SentAreEvents ==
    ASSUME NEW events, Sendable(events), FirstText(events) \in Texts
    PROVE  /\ \A i \in 1..Len(events) : events[i] \in Events
           /\ events \in Seq(Events) /\ events \in BoundedSeq(Events, 2)
<1>1. /\ events \in Seq(StreamEvents) /\ Len(events) <= 2 /\ Len(events) \in Nat
      /\ Len(events) = 2 => IsTerminal(events[2])
  BY LenProperties DEF Sendable
<1>2. \A i \in 1..Len(events) : events[i] \in StreamEvents
  BY <1>1, ElementOfSeq
<1>3. \A i \in 1..Len(events) : i = 1 \/ (i = 2 /\ Len(events) = 2)
  <2>1. \A n \in Nat : \A i \in 1..n : n <= 2 => i = 1 \/ (i = 2 /\ n = 2)
    OBVIOUS
  <2> QED
    BY <1>1, <2>1
<1>4. 1 \in 1..Len(events) => events[1].text \in Texts
  BY <1>1, EmptySeq DEF FirstText
<1>5. \A i \in 1..Len(events) : events[i] \in Events
  BY <1>1, <1>2, <1>3, <1>4, RunsAreTexts
<1>6. events \in [1..Len(events) -> Events] /\ Len(events) \in 0..2
  <2>1. events \in [1..Len(events) -> StreamEvents]
    BY <1>1, LenProperties
  <2>2. Len(events) \in 0..2
    <3>1. \A n \in Nat : n <= 2 => n \in 0..2
      OBVIOUS
    <3> QED
      BY <1>1, <3>1, Zenon
  <2> QED
    BY <1>5, <2>1, <2>2
<1> QED
  BY <1>1, <1>5, <1>6 DEF BoundedSeq, SeqOf

LEMMA OnItsWay ==
    ASSUME StreamInv
    PROVE  /\ draft \in Texts /\ tail \in Texts
           /\ provider.out \in BoundedSeq(Events, 2)
           /\ gateway.out \in BoundedSeq(Events, 2)
           /\ gateway.out # <<>> => Head(gateway.out) \in Events
           /\ out \in BoundedSeq(Events, 1)
           /\ out # <<>> => Head(out) \in Events
           /\ orchestrator.at \in {"received", "sending"} => orchestrator.event \in Events
<1>1. PICK a, b, c, d, e \in 0..read : Links(a, b, c, d, e)
  BY DEF StreamInv, Chain
<1>2. /\ {0, read, a, b, c, d, e} \subseteq 0..MaxDeltas
      /\ read \in 0..MaxDeltas
  <2>1. read \in 0..MaxDeltas
    BY DEF StreamInv
  <2> QED
    BY <1>1, <2>1, MaxDeltasAssumption
<1>3. /\ draft \in Texts /\ tail \in Texts /\ FirstText(out) \in Texts
      /\ FirstText(gateway.out) \in Texts /\ FirstText(provider.out) \in Texts
      /\ Unbroken => InHand \in Texts
  BY <1>1, <1>2, RunsAreTexts DEF Links
<1>4. Sendable(provider.out) /\ Sendable(gateway.out)
  BY DEF StreamInv, ProviderSends, GatewaySends
<1>5. gateway.out # <<>> => Head(gateway.out) \in Events
  BY <1>3, <1>4, RunsAreTexts, Popped
<1>6. out \in BoundedSeq(Events, 1) /\ (out # <<>> => Head(out) \in Events)
  <2>1. CASE out = <<>>
    <3>1. <<>> \in [1..0 -> Events] /\ 0 \in 0..1
      OBVIOUS
    <3> QED
      BY <2>1, <3>1 DEF BoundedSeq, SeqOf
  <2>2. CASE out # <<>>
    <3>1. /\ Head(out) \in Events /\ out[1] = Head(out) /\ Len(out) = 1
          /\ out \in Seq(StreamEvents)
      BY <1>3, <2>2, OutHolds, RunsAreTexts DEF StreamInv, Queue
    <3>2. out \in [1..1 -> Events] /\ 1 \in 0..1
      BY <3>1, LenProperties
    <3> QED
      BY <3>1, <3>2 DEF BoundedSeq, SeqOf
  <2> QED
    BY <2>1, <2>2
<1>7. orchestrator.at \in {"received", "sending"} => orchestrator.event \in Events
  <2>1. orchestrator.event \in StreamEvents
    BY DEF StreamInv, Orchestrating
  <2> QED
    BY <1>3, <2>1, RunsAreTexts DEF Unbroken, InHand
<1> QED
  BY <1>3, <1>4, <1>5, <1>6, <1>7, SentAreEvents

LEMMA TextKeeps == StreamInv /\ TextInv /\ [Next]_vars => TextInv'
<1> SUFFICES ASSUME StreamInv, TextInv, [Next]_vars
             PROVE  TextInv'
  OBVIOUS
<1>1. \A e \in Events : Append(received, e) \in Seq(Events)
  BY DEF TextInv
<1>2. received' \in Seq(Events)
  <2>1. CASE Read
    BY <1>1, <2>1, OnItsWay DEF Read
  <2>2. CASE ReadFromGateway
    BY <1>1, <2>2, OnItsWay DEF ReadFromGateway
  <2>3. CASE ~ (Read \/ ReadFromGateway)
    <3>1. received' = received
      BY <2>3 DEF Next, vars, Start, Refuse, OpenFails, Open, ProviderStep, ReadDelta, ReadFinish,
         ReadFails, Reads, GatewayStep, GatewayReceives, GatewayEnds, OrchestratorStep, LoopTop,
         SeesCancel, OrchestratorReceives, Wrap, Send, Cancel, OnlyOrchestrator, CallerStep,
         CallerCancels
    <3> QED
      BY <3>1 DEF TextInv
  <2> QED
    BY <2>1, <2>2, <2>3
<1>3. orchestrator'.at \notin {"received", "sending"} => orchestrator'.event = Done
  <2>1. CASE Start \/ LoopTop \/ SeesCancel \/ Send
    BY <2>1 DEF Start, Refuse, OpenFails, Open, LoopTop, SeesCancel, Send, OrchestratorGoes
  <2>2. CASE OrchestratorReceives
    BY <2>2 DEF OrchestratorReceives, OrchestratorGoes
  <2>3. CASE Wrap
    BY <2>3 DEF Wrap, OrchestratorGoes
  <2>4. CASE Cancel
    BY <2>4 DEF Cancel, OrchestratorGoes, TextInv
  <2>5. CASE UNCHANGED vars \/ ProviderStep \/ GatewayStep \/ CallerStep \/ CallerCancels
    <3>1. orchestrator' = orchestrator
      BY <2>5 DEF vars, ProviderStep, ReadDelta, ReadFinish, ReadFails, Reads, GatewayStep,
         GatewayReceives, GatewayEnds, CallerStep, Read, ReadFromGateway, CallerCancels
    <3> QED
      BY <3>1 DEF TextInv
  <2> QED
    BY <2>1, <2>2, <2>3, <2>4, <2>5 DEF Next, OrchestratorStep
<1> QED
  BY <1>2, <1>3 DEF TextInv

(* The variables of the stream keep their types: every event that is        *)
(* waiting, passed on or read carries a run of the pieces of the draft.     *)
THEOREM StreamTypeCorrect == RequestSpec => []TypeOK
<1>1. Init => TextInv
  BY DEF Init, TextInv
<1>2. Spec => []TextInv
  <2>1. Spec => []StreamInv
    BY StreamStarts, StreamKeeps, PTL DEF Spec
  <2> QED
    BY <1>1, <2>1, TextKeeps, PTL DEF Spec
<1>3. StreamInv /\ TextInv => TypeOK
  <2> SUFFICES ASSUME StreamInv, TextInv
               PROVE  TypeOK
    OBVIOUS
  <2>1. /\ provider.then \in {"read", "return"} /\ gateway.then \in {"receive", "return"}
        /\ orchestrator \in [at : Places, event : StreamEvents, first : BOOLEAN]
    BY DEF StreamInv, ProviderSends, GatewaySends, Orchestrating
  <2>2. orchestrator.event \in Events
    BY OnItsWay, RunsAreTexts, EventsTyped DEF TextInv, IsTerminal
  <2>3. orchestrator \in [at : Places, event : Events, first : BOOLEAN]
    BY <2>1, <2>2
  <2> QED
    BY <2>1, <2>3, OnItsWay DEF TypeOK, StreamInv, TextInv, Places
<1> QED
  BY <1>2, <1>3, RequestIsAStream, StreamInvariant, PTL

-----------------------------------------------------------------------------
(***************************************************************************)
(* The dialogue.  While the user waits for each answer there is at most    *)
(* one request out, it is about what is on the screen, and it takes along  *)
(* what was answered.                                                      *)
(***************************************************************************)
Asked == Slots \union {Talk!None}

Desks ==
    [phase : {"input", "confirm", "clarify", "done", "handed over", "unused"},
     scene : Nat, described : Nat, doctype : Doctypes \union {Talk!None},
     step : [asking : Asked, filled : SUBSET Asked, round : Nat],
     context : [doctype : Doctypes \union {Talk!None}, scene : Nat, filled : SUBSET Asked,
                missing : SUBSET Asked],
     loading : BOOLEAN, answered : SUBSET Asked, disturbed : BOOLEAN]

Requests ==
    [kind : {"classify", "clarify"}, scene : Nat, doctype : Doctypes \union {Talk!None},
     filled : SUBSET Asked, round : Nat, skipped : BOOLEAN, slot : Asked]

Agrees(request) ==
    /\ request.scene = desk.scene
    /\ request.kind = "clarify" =>
         /\ request.doctype = desk.doctype
         /\ desk.answered \union ({request.slot} \ {Talk!None}) \subseteq request.filled

TalkInv ==
    /\ desk \in Desks /\ requests \in Seq(Requests)
    /\ ~desk.disturbed =>
         /\ requests # <<>> => Len(requests) = 1 /\ desk.phase # "done" /\ Agrees(requests[1])
         /\ desk.phase = "clarify" =>
              desk.answered \subseteq desk.step.filled \ {desk.step.asking}
         /\ desk.phase = "done" => /\ desk.answered \subseteq desk.context.filled
                                   /\ desk.context.scene = desk.scene
                                   /\ desk.context.doctype = desk.doctype

LEMMA EmptyDesk ==
    ASSUME NEW phase \in {"input", "handed over", "unused"}, requests' \in Seq(Requests),
           desk' = [Talk!Empty EXCEPT !.phase = phase],
           requests' # <<>> => Len(requests') = 1 /\ Agrees(requests[1])'
    PROVE  TalkInv'
<1>1. desk' \in Desks /\ desk'.phase = phase
  BY DEF Desks, Asked, Talk!Empty, Talk!NoStep, Talk!NoContext, Talk!None
<1> QED
  BY <1>1 DEF TalkInv

\* A request is sent.
LEMMA Sent ==
    ASSUME TalkInv, NEW request \in Requests, Talk!Send(request), desk' \in Desks,
           desk'.phase = desk.phase, desk.phase # "done", desk'.scene = desk.scene,
           desk'.step = desk.step,
           ~desk'.disturbed => ~desk.disturbed /\ requests = <<>>,
           desk.phase = "clarify" => desk'.answered = desk.answered,
           ~desk'.disturbed => Agrees(request)'
    PROVE  TalkInv'
<1>1. requests \in Seq(Requests) /\ requests' = Append(requests, request)
  BY DEF TalkInv, Talk!Send
<1>2. requests' \in Seq(Requests)
  BY <1>1
<1>3. requests = <<>> => Len(requests') = 1 /\ requests'[1] = request
  BY <1>1
<1>4. ~desk'.disturbed => Agrees(requests[1])'
  BY <1>3 DEF Agrees
<1> QED
  BY <1>2, <1>3, <1>4 DEF TalkInv

LEMMA DescribeKeeps ==
    ASSUME TalkInv, Talk!Describe
    PROVE  TalkInv'
<1>1. /\ desk.phase = "input" /\ requests' = requests
      /\ desk' = [desk EXCEPT !.described = @ + 1, !.scene = desk.described + 1,
                              !.disturbed = @ \/ Talk!Pending]
  BY DEF Talk!Describe
<1>2. desk' \in Desks /\ desk'.phase = "input"
  <2>1. PICK n \in Nat : n = desk.described + 1
    <3>1. desk.described \in Nat
      BY DEF TalkInv, Desks
    <3> QED
      BY <3>1
  <2>2. desk' = [desk EXCEPT !.described = n, !.scene = n, !.disturbed = @ \/ Talk!Pending]
    BY <1>1, <2>1 DEF TalkInv, Desks
  <2> QED
    BY <1>1, <2>2 DEF TalkInv, Desks
<1>3. ~desk'.disturbed => requests = <<>>
  BY <1>1 DEF TalkInv, Desks, Talk!Pending
<1> QED
  BY <1>1, <1>2, <1>3 DEF TalkInv

LEMMA ClassifyKeeps ==
    ASSUME TalkInv, Talk!Classify
    PROVE  TalkInv'
<1>1. PICK request \in Requests :
        /\ Talk!Send(request) /\ request.kind = "classify" /\ request.scene = desk.scene
  <2> DEFINE sent == [Talk!ClarifyRequest(desk.scene, Talk!None, {}, 0, FALSE, Talk!None)
                        EXCEPT !.kind = "classify"]
  <2>1. sent \in Requests /\ sent.kind = "classify" /\ sent.scene = desk.scene
    BY DEF TalkInv, Desks, Requests, Asked, Talk!ClarifyRequest
  <2> QED
    BY <2>1 DEF Talk!Classify
<1>2. /\ desk.phase = "input"
      /\ desk' = [desk EXCEPT !.loading = TRUE, !.disturbed = @ \/ Talk!Pending]
  BY DEF Talk!Classify
<1>3. /\ desk' \in Desks /\ desk'.phase = desk.phase /\ desk'.scene = desk.scene
      /\ desk'.step = desk.step /\ desk'.answered = desk.answered
  BY <1>2 DEF TalkInv, Desks
<1>4. ~desk'.disturbed => ~desk.disturbed /\ requests = <<>>
  BY <1>2 DEF TalkInv, Desks, Talk!Pending
<1>5. Agrees(request)'
  BY <1>1, <1>3 DEF Agrees
<1> QED
  BY <1>1, <1>2, <1>3, <1>4, <1>5, Sent

LEMMA SelectKeeps ==
    ASSUME TalkInv, Talk!Select
    PROVE  TalkInv'
<1>1. PICK doctype \in Doctypes :
        /\ desk.phase = "confirm"
        /\ Talk!Send(Talk!ClarifyRequest(desk.scene, doctype, {}, 0, FALSE, Talk!None))
        /\ desk' = [desk EXCEPT !.doctype = doctype, !.loading = TRUE,
                                !.answered = {}, !.disturbed = @ \/ Talk!Pending]
  BY DEF Talk!Select
<1>2. PICK request \in Requests :
        /\ Talk!Send(request) /\ request.scene = desk.scene /\ request.doctype = doctype
        /\ request.filled = {} /\ request.slot = Talk!None
  <2> DEFINE sent == Talk!ClarifyRequest(desk.scene, doctype, {}, 0, FALSE, Talk!None)
  <2>1. /\ sent \in Requests /\ sent.scene = desk.scene /\ sent.doctype = doctype
        /\ sent.filled = {} /\ sent.slot = Talk!None
    BY DEF TalkInv, Desks, Requests, Asked, Talk!ClarifyRequest
  <2> QED
    BY <1>1, <2>1
<1>3. /\ desk' \in Desks /\ desk'.phase = desk.phase /\ desk'.scene = desk.scene
      /\ desk'.step = desk.step /\ desk'.answered = {} /\ desk'.doctype = doctype
  BY <1>1 DEF TalkInv, Desks
<1>4. ~desk'.disturbed => ~desk.disturbed /\ requests = <<>>
  BY <1>1 DEF TalkInv, Desks, Talk!Pending
<1>5. Agrees(request)'
  BY <1>2, <1>3 DEF Agrees
<1> QED
  BY <1>1, <1>2, <1>3, <1>4, <1>5, Sent

\* An answer and a skipped question take along what was filled in.
LEMMA GoesOnKeeps ==
    ASSUME TalkInv, Talk!Answer \/ Talk!Skip
    PROVE  TalkInv'
<1>1. PICK skipped \in BOOLEAN, filled \in SUBSET Asked, slot \in Asked :
        /\ desk.step.filled \subseteq filled /\ {slot} \ {Talk!None} \subseteq filled
        /\ Talk!Send(Talk!ClarifyRequest(desk.scene, desk.doctype, filled,
                                         desk.step.round + 1, skipped, slot))
  <2>1. CASE Talk!Answer
    <3> DEFINE filled == desk.step.filled \union {desk.step.asking}
    <3>1. filled \in SUBSET Asked /\ desk.step.asking \in Asked
      BY DEF TalkInv, Desks
    <3>2. Talk!Send(Talk!ClarifyRequest(desk.scene, desk.doctype, filled,
                                        desk.step.round + 1, FALSE, desk.step.asking))
      BY <2>1 DEF Talk!Answer
    <3>3. desk.step.filled \subseteq filled /\ {desk.step.asking} \ {Talk!None} \subseteq filled
      OBVIOUS
    <3> QED
      BY <3>1, <3>2, <3>3
  <2>2. CASE Talk!Skip
    <3>1. desk.step.filled \in SUBSET Asked /\ Talk!None \in Asked
      BY DEF TalkInv, Desks, Asked
    <3>2. Talk!Send(Talk!ClarifyRequest(desk.scene, desk.doctype, desk.step.filled,
                                        desk.step.round + 1, TRUE, Talk!None))
      BY <2>2 DEF Talk!Skip
    <3> QED
      BY <3>1, <3>2
  <2> QED
    BY <2>1, <2>2
<1>2. /\ desk.phase = "clarify"
      /\ desk' = [desk EXCEPT !.loading = TRUE, !.disturbed = @ \/ Talk!Pending]
  BY DEF Talk!Answer, Talk!Skip
<1>3. PICK request \in Requests :
        /\ Talk!Send(request) /\ request.scene = desk.scene /\ request.doctype = desk.doctype
        /\ request.filled = filled /\ request.slot = slot
  <2>1. PICK round \in Nat : round = desk.step.round + 1
    <3>1. desk.step.round \in Nat
      BY DEF TalkInv, Desks
    <3> QED
      BY <3>1
  <2> DEFINE sent == Talk!ClarifyRequest(desk.scene, desk.doctype, filled, round, skipped, slot)
  <2>2. /\ sent \in Requests /\ sent.scene = desk.scene /\ sent.doctype = desk.doctype
        /\ sent.filled = filled /\ sent.slot = slot
    BY DEF TalkInv, Desks, Requests, Talk!ClarifyRequest
  <2>3. Talk!Send(sent)
    BY <1>1, <2>1
  <2> QED
    BY <2>2, <2>3
<1>4. /\ desk' \in Desks /\ desk'.phase = desk.phase /\ desk'.scene = desk.scene
      /\ desk'.step = desk.step /\ desk'.answered = desk.answered
      /\ desk'.doctype = desk.doctype
  BY <1>2 DEF TalkInv, Desks
<1>5. ~desk'.disturbed => ~desk.disturbed /\ requests = <<>>
  BY <1>2 DEF TalkInv, Desks, Talk!Pending
<1>6. ~desk'.disturbed => Agrees(request)'
  <2>1. ~desk.disturbed => desk.answered \subseteq desk.step.filled
    BY <1>2 DEF TalkInv
  <2> QED
    BY <1>1, <1>3, <1>4, <1>5, <2>1 DEF Agrees
<1>7. desk.phase # "done"
  BY <1>2
<1> QED
  BY <1>3, <1>4, <1>5, <1>6, <1>7, Sent

LEMMA RestartKeeps ==
    ASSUME TalkInv, Talk!Restart
    PROVE  TalkInv'
<1>1. /\ requests' = requests
      /\ desk' = [Talk!Empty EXCEPT !.described = desk.described, !.loading = desk.loading,
                                    !.disturbed = Talk!Pending]
  BY DEF Talk!Restart
<1>2. desk' \in Desks /\ desk'.phase = "input" /\ (~desk'.disturbed => requests = <<>>)
  <2>1. desk.described \in Nat /\ desk.loading \in BOOLEAN
    BY DEF TalkInv, Desks
  <2> QED
    BY <1>1, <2>1 DEF Desks, Asked, Talk!Empty, Talk!NoStep, Talk!NoContext, Talk!None,
                      Talk!Pending
<1> QED
  BY <1>1, <1>2 DEF TalkInv

\* A request has come back.
LEMMA ComesBack ==
    ASSUME TalkInv, NEW i \in Talk!Out
    PROVE  /\ requests[i] \in Requests
           /\ RemoveAt(requests, i) \in Seq(Requests)
           /\ ~desk.disturbed =>
                /\ RemoveAt(requests, i) = <<>>
                /\ desk.phase # "done" /\ Agrees(requests[i])
<1>1. requests \in Seq(Requests) /\ i \in 1..Len(requests) /\ Len(requests) \in Nat
  BY LenProperties DEF TalkInv, Talk!Out
<1>2. requests[i] \in Requests
  BY <1>1, ElementOfSeq
<1>3. RemoveAt(requests, i) \in Seq(Requests)
  <2>1. SubSeq(requests, 1, i - 1) \in Seq(Requests)
    <3>1. \A j \in 1..(i - 1) : requests[j] \in Requests
      BY <1>1, ElementOfSeq
    <3> QED
      BY <1>1, <3>1, SubSeqProperties
  <2>2. SubSeq(requests, i + 1, Len(requests)) \in Seq(Requests)
    <3>1. \A j \in (i + 1)..Len(requests) : requests[j] \in Requests
      BY <1>1, ElementOfSeq
    <3> QED
      BY <1>1, <3>1, SubSeqProperties
  <2> QED
    BY <2>1, <2>2, ConcatProperties DEF RemoveAt
<1>4. ASSUME ~desk.disturbed
      PROVE  RemoveAt(requests, i) = <<>> /\ desk.phase # "done" /\ Agrees(requests[i])
  <2>1. requests # <<>>
    BY <1>1
  <2>2. Len(requests) = 1 /\ i = 1 /\ desk.phase # "done" /\ Agrees(requests[i])
    <3>1. Len(requests) = 1 /\ desk.phase # "done" /\ Agrees(requests[1])
      BY <1>4, <2>1 DEF TalkInv
    <3>2. i = 1
      BY <1>1, <3>1
    <3> QED
      BY <3>1, <3>2
  <2>3. SubSeq(requests, 1, 0) = <<>> /\ SubSeq(requests, 2, 1) = <<>>
    BY SubSeqEmpty
  <2>4. RemoveAt(requests, i) = <<>> \o <<>>
    BY <2>2, <2>3 DEF RemoveAt
  <2> QED
    BY <2>2, <2>4, ConcatEmptySeq, EmptySeq
<1> QED
  BY <1>2, <1>3, <1>4

LEMMA RemovedIs ==
    ASSUME NEW i \in Nat
    PROVE  Talk!RemoveAt(requests, i) = RemoveAt(requests, i)
BY DEF Talk!RemoveAt, RemoveAt

LEMMA RepliedIs ==
    ASSUME NEW i \in Talk!Out, Talk!Returns(i)
    PROVE  requests' = RemoveAt(requests, i)
<1>1. i \in Nat
  BY DEF Talk!Out
<1> QED
  BY <1>1, RemovedIs DEF Talk!Returns

LEMMA ClassifiedKeeps ==
    ASSUME TalkInv, NEW i \in Talk!Out, Talk!Classified(i)
    PROVE  TalkInv'
<1>1. /\ requests[i] \in Requests /\ RemoveAt(requests, i) \in Seq(Requests)
      /\ ~desk.disturbed =>
           RemoveAt(requests, i) = <<>> /\ desk.phase # "done" /\ Agrees(requests[i])
  BY ComesBack
<1>2. ASSUME NEW doctype \in Doctypes,
             requests' = Append(RemoveAt(requests, i),
                 Talk!ClarifyRequest(requests[i].scene, doctype, {}, 0, FALSE, Talk!None)),
             desk' = [desk EXCEPT !.doctype = doctype, !.loading = TRUE, !.answered = {}]
      PROVE  TalkInv'
  <2>1. PICK request \in Requests :
          /\ request.scene = requests[i].scene /\ request.doctype = doctype
          /\ request.filled = {} /\ request.slot = Talk!None
          /\ requests' = Append(RemoveAt(requests, i), request)
    <3> DEFINE sent == Talk!ClarifyRequest(requests[i].scene, doctype, {}, 0, FALSE, Talk!None)
    <3>1. requests[i].scene \in Nat
      BY <1>1 DEF Requests
    <3>2. /\ sent \in Requests /\ sent.scene = requests[i].scene /\ sent.doctype = doctype
          /\ sent.filled = {} /\ sent.slot = Talk!None
      BY <3>1 DEF Requests, Asked, Talk!ClarifyRequest
    <3> QED
      BY <1>2, <3>2
  <2>2. /\ desk' \in Desks /\ desk'.phase = desk.phase /\ desk'.scene = desk.scene
        /\ desk'.step = desk.step /\ desk'.answered = {} /\ desk'.doctype = doctype
        /\ desk'.disturbed = desk.disturbed
    BY <1>2 DEF TalkInv, Desks
  <2>3. requests' \in Seq(Requests)
    BY <1>1, <2>1, AppendProperties
  <2>4. ~desk.disturbed => Len(requests') = 1 /\ requests'[1] = request
    BY <1>1, <2>1
  <2>5. ~desk.disturbed => Agrees(requests[1])'
    <3>1. ~desk.disturbed => request.scene = desk'.scene
      BY <1>1, <2>1, <2>2 DEF Agrees
    <3> QED
      BY <2>1, <2>2, <2>4, <3>1 DEF Agrees
  <2> QED
    BY <1>1, <2>2, <2>3, <2>4, <2>5 DEF TalkInv
<1>3. ASSUME Talk!Returns(i), desk' = [desk EXCEPT !.phase = "confirm", !.loading = FALSE]
      PROVE  TalkInv'
  <2>1. requests' = RemoveAt(requests, i)
    BY <1>3, RepliedIs
  <2>2. desk' \in Desks /\ desk'.phase = "confirm" /\ desk'.disturbed = desk.disturbed
    BY <1>3 DEF TalkInv, Desks
  <2> QED
    BY <1>1, <2>1, <2>2 DEF TalkInv
<1>4. Talk!RemoveAt(requests, i) = RemoveAt(requests, i)
  BY RemovedIs DEF Talk!Out
<1> QED
  BY <1>2, <1>3, <1>4 DEF Talk!Classified

LEMMA FailsKeep ==
    ASSUME TalkInv, NEW i \in Talk!Out, Talk!ClassifyFails(i) \/ Talk!ClarifyFails(i)
    PROVE  TalkInv'
<1>1. /\ RemoveAt(requests, i) \in Seq(Requests)
      /\ ~desk.disturbed => RemoveAt(requests, i) = <<>>
  BY ComesBack
<1>2. requests' = RemoveAt(requests, i) /\ desk' = [desk EXCEPT !.loading = FALSE]
  BY RepliedIs DEF Talk!ClassifyFails, Talk!ClarifyFails
<1>3. /\ desk' \in Desks /\ desk'.phase = desk.phase /\ desk'.scene = desk.scene
      /\ desk'.step = desk.step /\ desk'.answered = desk.answered
      /\ desk'.doctype = desk.doctype /\ desk'.context = desk.context
      /\ desk'.disturbed = desk.disturbed
  BY <1>2 DEF TalkInv, Desks
<1> QED
  BY <1>1, <1>2, <1>3 DEF TalkInv

LEMMA ClarifiedKeeps ==
    ASSUME TalkInv, NEW i \in Talk!Out, Talk!Clarified(i)
    PROVE  TalkInv'
<1> DEFINE shown == [desk EXCEPT !.loading = FALSE,
                                 !.answered = @ \union ({requests[i].slot} \ {Talk!None})]
<1>1. /\ requests[i] \in Requests /\ RemoveAt(requests, i) \in Seq(Requests)
      /\ ~desk.disturbed =>
           RemoveAt(requests, i) = <<>> /\ desk.phase # "done" /\ Agrees(requests[i])
  BY ComesBack
<1>2. requests[i].kind = "clarify" /\ requests' = RemoveAt(requests, i)
  BY RepliedIs DEF Talk!Clarified
<1>3. PICK required \in Talk!RequiredSlots :
        \E filled \in Talk!Seeds(requests[i], required) :
          \/ desk' = [shown EXCEPT !.phase = "done",
                                   !.context = Talk!Context(requests[i], filled, required \ filled)]
          \/ \E slot \in required \ filled :
               desk' = [shown EXCEPT !.phase = "clarify",
                                     !.step = [asking |-> slot, filled |-> filled,
                                               round |-> requests[i].round]]
  <2>1. PICK required \in Talk!RequiredSlots, limit \in Talk!Limits :
          \E filled \in Talk!Seeds(requests[i], required) :
            LET missing == required \ filled IN
            \/ /\ Talk!Over(requests[i], missing, limit)
               /\ desk' = [shown EXCEPT !.phase = "done",
                                        !.context = Talk!Context(requests[i], filled, missing)]
            \/ /\ ~Talk!Over(requests[i], missing, limit)
               /\ \E slot \in missing :
                    desk' = [shown EXCEPT !.phase = "clarify",
                                          !.step = [asking |-> slot, filled |-> filled,
                                                    round |-> requests[i].round]]
    BY Zenon DEF Talk!Clarified
  <2> QED
    BY <2>1
<1>10. PICK filled \in Talk!Seeds(requests[i], required) :
          \/ desk' = [shown EXCEPT !.phase = "done",
                                   !.context = Talk!Context(requests[i], filled, required \ filled)]
          \/ \E slot \in required \ filled :
               desk' = [shown EXCEPT !.phase = "clarify",
                                     !.step = [asking |-> slot, filled |-> filled,
                                               round |-> requests[i].round]]
  BY <1>3
<1>4. required \in SUBSET Asked /\ filled \in SUBSET Asked
  BY <1>1, <1>10 DEF Talk!RequiredSlots, Talk!Seeds, Requests, Asked
<1>5. PICK answered \in SUBSET Asked :
        answered = desk.answered \union ({requests[i].slot} \ {Talk!None})
  <2>1. desk.answered \in SUBSET Asked /\ requests[i].slot \in Asked
    BY <1>1 DEF TalkInv, Desks, Requests
  <2> QED
    BY <2>1
<1>6. /\ shown \in Desks /\ shown.answered = answered /\ shown.scene = desk.scene
      /\ shown.doctype = desk.doctype /\ shown.disturbed = desk.disturbed
  <2>1. shown = [desk EXCEPT !.loading = FALSE, !.answered = answered]
    BY <1>5 DEF TalkInv, Desks
  <2> QED
    BY <2>1 DEF TalkInv, Desks
<1>7. ~desk.disturbed =>
        /\ answered \subseteq filled
        /\ requests[i].scene = desk.scene /\ requests[i].doctype = desk.doctype
  <2>1. SUFFICES ASSUME ~desk.disturbed
                 PROVE  /\ answered \subseteq filled
                        /\ requests[i].scene = desk.scene /\ requests[i].doctype = desk.doctype
    OBVIOUS
  <2>2. /\ answered \subseteq requests[i].filled
        /\ requests[i].scene = desk.scene /\ requests[i].doctype = desk.doctype
    BY <1>1, <1>2, <1>5, <2>1 DEF Agrees
  <2>3. filled = requests[i].filled \/ requests[i].filled = {}
    BY <1>10 DEF Talk!Seeds
  <2> QED
    BY <2>2, <2>3
<1> HIDE DEF shown
<1>8. CASE desk' = [shown EXCEPT !.phase = "done",
                        !.context = Talk!Context(requests[i], filled, required \ filled)]
  <2>1. PICK context \in [doctype : Doctypes \union {Talk!None}, scene : Nat,
                          filled : SUBSET Asked, missing : SUBSET Asked] :
          /\ context = Talk!Context(requests[i], filled, required \ filled)
          /\ context.filled = filled /\ context.scene = requests[i].scene
          /\ context.doctype = requests[i].doctype
    <3>1. requests[i].doctype \in Doctypes \union {Talk!None} /\ requests[i].scene \in Nat
      BY <1>1 DEF Requests
    <3>2. required \ filled \in SUBSET Asked
      BY <1>4
    <3> DEFINE made == Talk!Context(requests[i], filled, required \ filled)
    <3>3. made \in [doctype : Doctypes \union {Talk!None}, scene : Nat,
                    filled : SUBSET Asked, missing : SUBSET Asked]
      BY <1>4, <3>1, <3>2 DEF Talk!Context
    <3>4. /\ made.filled = filled /\ made.scene = requests[i].scene
          /\ made.doctype = requests[i].doctype
      BY DEF Talk!Context
    <3> HIDE DEF made
    <3>5. made = Talk!Context(requests[i], filled, required \ filled)
      BY DEF made
    <3> QED
      BY <3>3, <3>4, <3>5
  <2>2. desk' = [shown EXCEPT !.phase = "done", !.context = context]
    BY <1>8, <2>1
  <2>3. /\ desk' \in Desks /\ desk'.phase = "done" /\ desk'.context = context
        /\ desk'.answered = answered /\ desk'.scene = desk.scene
        /\ desk'.doctype = desk.doctype /\ desk'.disturbed = desk.disturbed
    BY <1>6, <2>2 DEF Desks
  <2> QED
    BY <1>1, <1>2, <1>7, <2>1, <2>3 DEF TalkInv
<1>9. ASSUME NEW slot \in required \ filled,
             desk' = [shown EXCEPT !.phase = "clarify",
                          !.step = [asking |-> slot, filled |-> filled,
                                    round |-> requests[i].round]]
      PROVE  TalkInv'
  <2>1. PICK step \in [asking : Asked, filled : SUBSET Asked, round : Nat] :
          /\ step = [asking |-> slot, filled |-> filled, round |-> requests[i].round]
          /\ step.filled = filled /\ step.asking = slot
    <3>1. requests[i].round \in Nat /\ slot \in Asked
      BY <1>1, <1>4 DEF Requests
    <3> DEFINE made == [asking |-> slot, filled |-> filled, round |-> requests[i].round]
    <3>2. made \in [asking : Asked, filled : SUBSET Asked, round : Nat]
      BY <1>4, <3>1
    <3>3. made.filled = filled /\ made.asking = slot
      OBVIOUS
    <3> QED
      BY <3>2, <3>3
  <2>2. desk' = [shown EXCEPT !.phase = "clarify", !.step = step]
    BY <1>9, <2>1
  <2>3. /\ desk' \in Desks /\ desk'.phase = "clarify" /\ desk'.step = step
        /\ desk'.answered = answered /\ desk'.disturbed = desk.disturbed
    BY <1>6, <2>2 DEF Desks
  <2> QED
    BY <1>1, <1>2, <1>7, <2>1, <2>3 DEF TalkInv
<1> QED
  BY <1>10, <1>8, <1>9

LEMMA TalkKeeps == TalkInv /\ [RequestNext]_all => TalkInv'
<1> SUFFICES ASSUME TalkInv, [RequestNext]_all
             PROVE  TalkInv'
  OBVIOUS
<1>1. CASE UNCHANGED <<desk, requests>>
  BY <1>1 DEF TalkInv, Agrees
<1>2. CASE Dialogue
  <2>1. Talk!DeskNext
    BY <1>2 DEF Dialogue
  <2>2. CASE Talk!UserGoesOn
    BY <2>2, ClassifyKeeps, SelectKeeps, GoesOnKeeps DEF Talk!UserGoesOn
  <2>3. CASE Talk!Succeeds
    BY <2>3, ClassifiedKeeps, ClarifiedKeeps
       DEF Talk!Succeeds, Talk!ClassifySucceeds, Talk!ClarifySucceeds
  <2>4. CASE Talk!Fails
    BY <2>4, FailsKeep DEF Talk!Fails
  <2> QED
    BY <2>1, <2>2, <2>3, <2>4, DescribeKeeps, RestartKeeps DEF Talk!DeskNext
<1>3. CASE ConsumeContext
  <2>1. desk' = [Talk!Empty EXCEPT !.phase = "handed over"] /\ requests' = <<>>
    BY <1>3 DEF ConsumeContext
  <2>2. requests' \in Seq(Requests)
    BY <2>1, EmptySeq
  <2> QED
    BY <2>1, <2>2, EmptyDesk
<1>4. CASE SearchByIdentifier
  <2>1. /\ desk = Talk!Empty /\ requests' = requests
        /\ desk' = [Talk!Empty EXCEPT !.phase = "unused"]
    BY <1>4 DEF SearchByIdentifier
  <2>2. /\ ~desk.disturbed /\ desk'.scene = desk.scene /\ desk'.doctype = desk.doctype
        /\ desk'.answered = desk.answered
    BY <2>1 DEF Talk!Empty
  <2>3. requests' \in Seq(Requests)
    BY <2>1 DEF TalkInv
  <2>4. requests' # <<>> => Len(requests') = 1 /\ Agrees(requests[1])'
    BY <2>1, <2>2 DEF TalkInv, Agrees
  <2> QED
    BY <2>1, <2>3, <2>4, EmptyDesk
<1> QED
  BY <1>1, <1>2, <1>3, <1>4
     DEF RequestNext, all, SearchExamples, SearchGoesOn, AssemblePlan, StartDraft, Kept

(* What a user has answered is not asked again and goes into the context,   *)
(* which is about what is on the screen, unless the user went on while a    *)
(* request was out (WritingWorkbench, src/frontend/src/App.tsx).            *)
THEOREM AnswersStay == RequestSpec => []AnswersAreKept
<1>1. RequestInit => TalkInv
  <2> SUFFICES ASSUME RequestInit
               PROVE  TalkInv
    OBVIOUS
  <2>1. desk \in Desks /\ desk.phase = "input"
    BY DEF RequestInit, Desks, Asked, Talk!Empty, Talk!NoStep, Talk!NoContext, Talk!None
  <2>2. requests = <<>> /\ requests \in Seq(Requests)
    BY EmptySeq DEF RequestInit
  <2> QED
    BY <2>1, <2>2 DEF TalkInv
<1>2. TalkInv => AnswersAreKept
  BY DEF TalkInv, AnswersAreKept
<1> QED
  BY <1>1, <1>2, TalkKeeps, PTL DEF RequestSpec

-----------------------------------------------------------------------------
(***************************************************************************)
(* The search and its examples (internal/rag/retrieval/service.go,          *)
(* fewshot.go).  First the induction on the naturals, as a statement about  *)
(* sets, and with it what Only, the filter of the hits, returns.            *)
(***************************************************************************)

LEMMA Least ==
    ASSUME NEW N \in SUBSET Nat, N # {}
    PROVE  \E least \in N : \A n \in N : ~ (n < least)
<1>1. IsWellFoundedOn(OpToRel(<, Nat), Nat)
  BY NatLessThanWellFounded
<1> DEFINE R == OpToRel(<, Nat)
<1>2. \A m, n \in Nat : <<n, m>> \in R <=> n < m
  BY DEF OpToRel
<1>3. IsWellFoundedOn(R, Nat)
  BY <1>1
<1> HIDE DEF R
<1> QED
  BY <1>2, <1>3, WFMin

LEMMA Upwards ==
    ASSUME NEW N \in SUBSET Nat, 0 \in N, \A n \in N : n + 1 \in N
    PROVE  N = Nat
<1> SUFFICES ASSUME Nat \ N # {}
             PROVE  FALSE
  OBVIOUS
<1>1. PICK least \in Nat \ N : \A n \in Nat \ N : ~ (n < least)
  BY Least
<1>2. least # 0 /\ least - 1 \in Nat /\ least - 1 < least /\ (least - 1) + 1 = least
  BY <1>1
<1>3. least - 1 \in N
  BY <1>1, <1>2
<1> QED
  BY <1>1, <1>2, <1>3

\* One round of the loop: what is kept of the first n hits.
Round(kept, hits, first, n) ==
    IF n = 0 THEN <<>>
    ELSE IF hits[n] \in kept THEN Append(first[n - 1], hits[n])
    ELSE first[n - 1]

Rounds(kept, hits, first, m) ==
    first = [n \in 0 .. m |-> Round(kept, hits, first, n)]

LEMMA RoundsExist ==
    ASSUME NEW kept, NEW hits, NEW m \in Nat
    PROVE  \E first : Rounds(kept, hits, first, m)
<1> DEFINE N == {n \in Nat : \E first : Rounds(kept, hits, first, n)}
<1>1. 0 \in N
  <2> DEFINE first == [n \in 0 .. 0 |-> <<>>]
  <2>1. \A n \in 0 .. 0 : n = 0
    OBVIOUS
  <2>2. first = [n \in 0 .. 0 |-> Round(kept, hits, first, n)]
    BY <2>1 DEF Round
  <2> HIDE DEF first
  <2> QED
    BY <2>2 DEF Rounds
<1>2. \A n \in N : n + 1 \in N
  <2> SUFFICES ASSUME NEW n \in N
               PROVE  n + 1 \in N
    OBVIOUS
  <2>1. PICK first : Rounds(kept, hits, first, n)
    OBVIOUS
  <2> DEFINE longer == [i \in 0 .. (n + 1) |-> Round(kept, hits, first, i)]
  <2>2. \A i \in 0 .. n : first[i] = Round(kept, hits, first, i)
    BY <2>1 DEF Rounds
  <2>3. \A i \in 0 .. (n + 1) : i # 0 => i - 1 \in 0 .. n /\ i - 1 \in 0 .. (n + 1)
    OBVIOUS
  <2>4. \A i \in 0 .. n : i \in 0 .. (n + 1)
    OBVIOUS
  <2>5. \A i \in 0 .. n : longer[i] = first[i]
    BY <2>2, <2>4
  <2>6. \A i \in 0 .. (n + 1) : Round(kept, hits, first, i) = Round(kept, hits, longer, i)
    <3> HIDE DEF longer
    <3> QED
      BY <2>3, <2>5 DEF Round
  <2>7. longer = [i \in 0 .. (n + 1) |-> Round(kept, hits, longer, i)]
    <3>1. \A i \in 0 .. (n + 1) : longer[i] = Round(kept, hits, longer, i)
      BY <2>6
    <3>2. longer = [i \in 0 .. (n + 1) |-> longer[i]]
      OBVIOUS
    <3> HIDE DEF longer
    <3> QED
      BY <3>1, <3>2
  <2> HIDE DEF longer
  <2>8. Rounds(kept, hits, longer, n + 1)
    BY <2>7 DEF Rounds
  <2> QED
    BY <2>8
<1>3. N \in SUBSET Nat
  OBVIOUS
<1> HIDE DEF N
<1>4. N = Nat
  BY <1>1, <1>2, <1>3, Upwards
<1> QED
  BY <1>4 DEF N

LEMMA OnlyIs ==
    ASSUME NEW kept, NEW hits, Len(hits) \in Nat
    PROVE  \E first : /\ Rounds(kept, hits, first, Len(hits))
                      /\ Search!Only(kept, hits) = first[Len(hits)]
<1> DEFINE first == CHOOSE f : Rounds(kept, hits, f, Len(hits))
<1>1. Rounds(kept, hits, first, Len(hits))
  BY RoundsExist
<1>2. Search!Only(kept, hits) = first[Len(hits)]
  BY DEF Search!Only, Rounds, Round
<1> HIDE DEF first
<1> QED
  BY <1>1, <1>2

\* Of the first n hits, what may be kept.
Chosen(kept, hits, n) == {x \in kept : \E j \in 1 .. n : hits[j] = x}

LEMMA OnlyKeeps ==
    ASSUME NEW S, NEW kept, NEW hits \in Seq(S)
    PROVE  /\ Search!Only(kept, hits) \in Seq(S)
           /\ \A i \in 1 .. Len(Search!Only(kept, hits)) :
                Search!Only(kept, hits)[i] \in Chosen(kept, hits, Len(hits))
           /\ (\A i, j \in 1 .. Len(hits) : hits[i] = hits[j] => i = j) =>
                \A i, j \in 1 .. Len(Search!Only(kept, hits)) :
                   Search!Only(kept, hits)[i] = Search!Only(kept, hits)[j] => i = j
<1> DEFINE unique(s) == \A i, j \in 1 .. Len(s) : s[i] = s[j] => i = j
           good(s, n) == /\ s \in Seq(S)
                         /\ \A i \in 1 .. Len(s) : s[i] \in Chosen(kept, hits, n)
                         /\ unique(hits) => unique(s)
<1>1. Len(hits) \in Nat /\ \A n \in 1 .. Len(hits) : hits[n] \in S
  BY LenProperties, ElementOfSeq
<1>2. PICK first : /\ Rounds(kept, hits, first, Len(hits))
                   /\ Search!Only(kept, hits) = first[Len(hits)]
  BY <1>1, OnlyIs
<1>3. \A n \in 0 .. Len(hits) : first[n] = Round(kept, hits, first, n)
  BY <1>2 DEF Rounds
<1>4. good(<<>>, 0)
  BY EmptySeq
<1>5. ASSUME NEW n \in Nat, n + 1 \in 1 .. Len(hits), NEW s, good(s, n)
      PROVE  /\ good(s, n + 1)
             /\ hits[n + 1] \in kept => good(Append(s, hits[n + 1]), n + 1)
  <2> DEFINE hit == hits[n + 1]
             longer == Append(s, hit)
  <2>1. \A x \in Chosen(kept, hits, n) : x \in Chosen(kept, hits, n + 1)
    <3>1. \A j \in 1 .. n : j \in 1 .. (n + 1)
      OBVIOUS
    <3> QED
      BY <3>1 DEF Chosen
  <2>2. good(s, n + 1)
    BY <1>5, <2>1
  <2>3. ASSUME hit \in kept
        PROVE  good(longer, n + 1)
    <3>1. s \in Seq(S) /\ hit \in S /\ Len(s) \in Nat
      BY <1>1, <1>5, LenProperties
    <3>2. /\ longer \in Seq(S) /\ Len(longer) = Len(s) + 1
          /\ \A i \in 1 .. Len(s) : longer[i] = s[i]
          /\ longer[Len(s) + 1] = hit
      BY <3>1, AppendProperties
    <3>3. hit \in Chosen(kept, hits, n + 1)
      <4>1. n + 1 \in 1 .. (n + 1)
        OBVIOUS
      <4> QED
        BY <2>3, <4>1 DEF Chosen
    <3>4. \A i \in 1 .. Len(longer) : i \in 1 .. Len(s) \/ i = Len(s) + 1
      BY <3>1, <3>2
    <3>5. \A i \in 1 .. Len(longer) : longer[i] \in Chosen(kept, hits, n + 1)
      BY <1>5, <2>1, <3>2, <3>3, <3>4
    <3>6. ASSUME unique(hits)
          PROVE  unique(longer)
      <4>1. \A j \in 1 .. n : j \in 1 .. Len(hits) /\ j # n + 1
        BY <1>1, <1>5
      <4>2. \A j \in 1 .. n : hits[j] # hit
        BY <1>5, <3>6, <4>1
      <4>3. \A i \in 1 .. Len(s) : s[i] # hit
        BY <1>5, <4>2 DEF Chosen
      <4>4. unique(s)
        BY <1>5, <3>6
      <4> HIDE DEF longer, hit
      <4> QED
        BY <3>2, <3>4, <4>3, <4>4
    <3> QED
      BY <3>2, <3>5, <3>6
  <2> QED
    BY <2>2, <2>3
<1> DEFINE N == {n \in Nat : n <= Len(hits) => good(first[n], n)}
<1>6. 0 \in N
  <2>1. first[0] = <<>>
    BY <1>1, <1>3 DEF Round
  <2>2. good(first[0], 0)
    BY <1>4, <2>1
  <2> HIDE DEF good
  <2> QED
    BY <2>2
<1>7. \A n \in N : n + 1 \in N
  <2> SUFFICES ASSUME NEW n \in Nat, n <= Len(hits) => good(first[n], n),
                      n + 1 <= Len(hits)
               PROVE  good(first[n + 1], n + 1)
    OBVIOUS
  <2>1. n + 1 \in 0 .. Len(hits) /\ n + 1 \in 1 .. Len(hits) /\ n <= Len(hits)
    BY <1>1
  <2>2. first[n + 1] = IF hits[n + 1] \in kept THEN Append(first[n], hits[n + 1])
                       ELSE first[n]
    <3>1. n + 1 # 0 /\ (n + 1) - 1 = n
      OBVIOUS
    <3> QED
      BY <1>3, <2>1, <3>1 DEF Round
  <2>3. good(first[n], n)
    BY <2>1
  <2> HIDE DEF good
  <2> QED
    BY <1>5, <2>1, <2>2, <2>3
<1>8. N \in SUBSET Nat
  OBVIOUS
<1>9. good(first[Len(hits)], Len(hits))
  <2> HIDE DEF N
  <2>1. N = Nat
    BY <1>6, <1>7, <1>8, Upwards
  <2>2. Len(hits) \in N
    BY <1>1, <2>1
  <2> HIDE DEF good
  <2> QED
    BY <1>1, <2>2 DEF N
<1> QED
  BY <1>2, <1>9

-----------------------------------------------------------------------------
(***************************************************************************)
(* The search.  From the filter on its hits avoid what was deleted before   *)
(* it began, and none is there twice unless the re-ranking service has      *)
(* named one twice.                                                         *)
(***************************************************************************)
Unique(s) == \A i, j \in 1 .. Len(s) : s[i] = s[j] => i = j

Avoids(s, gone) == \A i \in 1 .. Len(s) : s[i] \notin gone

SearchPlaces == {"unstarted", "recalling", "looking up", "filtering", "ranking",
                 "answered", "failed"}

Searches == [at : SearchPlaces, intent : BOOLEAN, exact : BOOLEAN,
             gone : SUBSET Chunks, hits : Seq(Chunks), repeated : BOOLEAN,
             degraded : BOOLEAN, insufficient : BOOLEAN]

SearchInv ==
    /\ search \in Searches
    /\ search.at \in {"unstarted", "recalling"} => search.hits = <<>>
    /\ search.at \in {"ranking", "answered"} => Avoids(search.hits, search.gone)
    /\ search.at # "answered" \/ ~search.repeated => Unique(search.hits)
    /\ search.at = "answered" =>
           search.insufficient = Search!Insufficient(search.hits)

LEMMA NoHits == <<>> \in Seq(Chunks) /\ Unique(<<>>) /\ \A gone : Avoids(<<>>, gone)
  BY EmptySeq DEF Unique, Avoids

\* What another sequence of distinct hits that are not in it adds to one.
LEMMA Joined ==
    ASSUME NEW s \in Seq(Chunks), NEW t \in Seq(Chunks)
    PROVE  /\ s \o t \in Seq(Chunks)
           /\ \A gone : Avoids(s, gone) /\ Avoids(t, gone) => Avoids(s \o t, gone)
           /\ /\ Unique(s) /\ Unique(t)
              /\ \A i \in 1 .. Len(s), j \in 1 .. Len(t) : s[i] # t[j]
              => Unique(s \o t)
<1>1. Len(s) \in Nat /\ Len(t) \in Nat
  BY LenProperties
<1>2. /\ s \o t \in Seq(Chunks) /\ Len(s \o t) = Len(s) + Len(t)
      /\ \A i \in 1 .. Len(s \o t) :
           (s \o t)[i] = IF i <= Len(s) THEN s[i] ELSE t[i - Len(s)]
  BY ConcatProperties
<1>3. \A i \in 1 .. Len(s \o t) :
        \/ i \in 1 .. Len(s) /\ (s \o t)[i] = s[i]
        \/ i - Len(s) \in 1 .. Len(t) /\ (s \o t)[i] = t[i - Len(s)]
  BY <1>1, <1>2
<1>4. \A i, j \in 1 .. Len(s \o t) : i - Len(s) = j - Len(s) => i = j
  BY <1>1, <1>2
<1>5. \A gone : Avoids(s, gone) /\ Avoids(t, gone) => Avoids(s \o t, gone)
  BY <1>3 DEF Avoids
<1>6. /\ Unique(s) /\ Unique(t)
      /\ \A i \in 1 .. Len(s), j \in 1 .. Len(t) : s[i] # t[j]
      => Unique(s \o t)
  BY <1>3, <1>4 DEF Unique
<1> QED
  BY <1>2, <1>5, <1>6

\* The filter in these terms.
LEMMA Filtered ==
    ASSUME NEW hits \in Seq(Chunks), NEW kept
    PROVE  /\ Search!Only(kept, hits) \in Seq(Chunks)
           /\ \A i \in 1 .. Len(Search!Only(kept, hits)) :
                Search!Only(kept, hits)[i] \in kept
           /\ \A gone : Avoids(hits, gone) => Avoids(Search!Only(kept, hits), gone)
           /\ Unique(hits) => Unique(Search!Only(kept, hits))
  BY OnlyKeeps, LenProperties DEF Chosen, Avoids, Unique

LEMMA Recalled ==
    ASSUME NEW hits \in Search!Recalls
    PROVE  hits \in Seq(Chunks) /\ Unique(hits)
<1>1. PICK m \in 0 .. TopK : hits \in [1 .. m -> Chunks]
  BY DEF Search!Recalls, Search!BoundedSeq, Search!SeqOf
<1>2. hits \in Seq(Chunks)
  <2>1. m \in Nat
    BY <1>1, BoundsAssumption
  <2> QED
    BY <1>1, <2>1
<1>3. Search!IsInjective(hits)
  BY DEF Search!Recalls
<1> QED
  BY <1>2, <1>3, LenProperties DEF Unique, Search!IsInjective

LEMMA AppendedUnique ==
    ASSUME NEW s \in Seq(Chunks), NEW t \in Seq(Chunks), Unique(s), Unique(t)
    PROVE  /\ Search!AppendUnique(s, t) \in Seq(Chunks)
           /\ Unique(Search!AppendUnique(s, t))
<1> DEFINE new == Search!Only(Chunks \ Search!ToSet(s), t)
<1>1. /\ new \in Seq(Chunks) /\ Unique(new)
      /\ \A j \in 1 .. Len(new) : new[j] \in Chunks \ Search!ToSet(s)
  BY Filtered
<1>2. \A i \in 1 .. Len(s) : s[i] \in Search!ToSet(s)
  BY LenProperties DEF Search!ToSet
<1>3. Search!AppendUnique(s, t) = s \o new
  BY DEF Search!AppendUnique
<1> HIDE DEF new
<1>4. \A i \in 1 .. Len(s), j \in 1 .. Len(new) : s[i] # new[j]
  BY <1>1, <1>2
<1> QED
  BY <1>1, <1>3, <1>4, Joined

LEMMA RankedAgain ==
    ASSUME NEW hits \in Seq(Chunks), Unique(hits),
           NEW ranks \in Search!BoundedSeq(1 .. Len(hits), MaxRanks)
    PROVE  /\ Search!Reranked(hits, ranks) \in Seq(Chunks)
           /\ \A gone : Avoids(hits, gone) => Avoids(Search!Reranked(hits, ranks), gone)
           /\ Search!IsInjective(ranks) => Unique(Search!Reranked(hits, ranks))
<1>1. PICK m \in Nat : ranks \in [1 .. m -> 1 .. Len(hits)] /\ Len(ranks) = m
  <2>1. PICK m \in 0 .. MaxRanks : ranks \in [1 .. m -> 1 .. Len(hits)]
    BY DEF Search!BoundedSeq, Search!SeqOf
  <2>2. m \in Nat
    BY <2>1, BoundsAssumption
  <2>3. ranks \in Seq(1 .. Len(hits))
    BY <2>1, <2>2
  <2> QED
    BY <2>1, <2>2, <2>3, LenProperties
<1> DEFINE ranked == [i \in 1 .. Len(ranks) |-> hits[ranks[i]]]
           left == Search!Only(Chunks \ Search!ToSet(ranked), hits)
<1>2. \A i \in 1 .. m : ranks[i] \in 1 .. Len(hits) /\ hits[ranks[i]] \in Chunks
  BY <1>1, ElementOfSeq
<1>3. ranked \in [1 .. m -> Chunks]
  BY <1>1, <1>2
<1>4. ranked \in Seq(Chunks) /\ Len(ranked) = m
  <2> HIDE DEF ranked
  <2>1. ranked \in Seq(Chunks)
    BY <1>1, <1>3
  <2> QED
    BY <1>1, <1>3, <2>1, LenProperties
<1>5. \A i \in 1 .. m : ranked[i] = hits[ranks[i]]
  BY <1>1
<1>6. Search!Reranked(hits, ranks) = ranked \o left
  BY DEF Search!Reranked
<1> HIDE DEF ranked
<1>7. \A gone : Avoids(hits, gone) => Avoids(ranked, gone)
  BY <1>2, <1>4, <1>5 DEF Avoids
<1>8. Search!IsInjective(ranks) => Unique(ranked)
  <2> SUFFICES ASSUME Search!IsInjective(ranks), NEW i \in 1 .. m, NEW j \in 1 .. m,
                      ranked[i] = ranked[j]
               PROVE  i = j
    BY <1>4 DEF Unique
  <2>1. ranks[i] = ranks[j]
    BY <1>2, <1>5 DEF Unique
  <2> QED
    BY <1>1, <2>1 DEF Search!IsInjective
<1>9. /\ left \in Seq(Chunks) /\ Unique(left)
      /\ \A j \in 1 .. Len(left) : left[j] \in Chunks \ Search!ToSet(ranked)
      /\ \A gone : Avoids(hits, gone) => Avoids(left, gone)
  BY Filtered
<1> HIDE DEF left
<1>10. \A i \in 1 .. Len(ranked) : ranked[i] \in Search!ToSet(ranked)
  BY <1>4, LenProperties DEF Search!ToSet
<1>11. \A i \in 1 .. Len(ranked), j \in 1 .. Len(left) : ranked[i] # left[j]
  BY <1>9, <1>10
<1> QED
  BY <1>4, <1>6, <1>7, <1>8, <1>9, <1>11, Joined

LEMMA BeginKeeps ==
    ASSUME SearchInv,
           \/ \E intent \in BOOLEAN, exact \in BOOLEAN, gone \in SUBSET Chunks :
                Search!Begin(intent, exact, gone)
           \/ \E exact \in BOOLEAN : Search!Refuses(exact)
    PROVE  SearchInv'
<1>1. /\ search \in Searches /\ search.at = "unstarted" /\ search.hits = <<>>
  BY DEF SearchInv, Search!Begin, Search!Refuses, Search!At
<1>2. ASSUME NEW intent \in BOOLEAN, NEW exact \in BOOLEAN, NEW gone \in SUBSET Chunks,
             Search!Begin(intent, exact, gone)
      PROVE  SearchInv'
  <2>1. /\ search' \in Searches /\ search'.at = "recalling" /\ search'.hits = <<>>
    BY <1>1, <1>2 DEF Search!Begin, Searches, SearchPlaces
  <2> QED
    BY <2>1, NoHits DEF SearchInv
<1>3. ASSUME NEW exact \in BOOLEAN, Search!Refuses(exact)
      PROVE  SearchInv'
  <2>1. /\ search' \in Searches /\ search'.at = "failed" /\ search'.hits = <<>>
    BY <1>1, <1>3 DEF Search!Refuses, Searches, SearchPlaces
  <2> QED
    BY <2>1, NoHits DEF SearchInv
<1> QED
  BY <1>2, <1>3

\* The search goes to a place where only the hits matter.
LEMMA SearchMoves ==
    ASSUME SearchInv, NEW at \in {"looking up", "filtering", "failed"},
           NEW hits \in Seq(Chunks), Unique(hits),
           search' = [search EXCEPT !.at = at, !.hits = hits]
    PROVE  SearchInv'
<1>1. /\ search' \in Searches /\ search'.at = at /\ search'.hits = hits
  BY DEF SearchInv, Searches, SearchPlaces
<1> QED
  BY <1>1 DEF SearchInv

\* Nothing but the place changes.
LEMMA SearchGoes ==
    ASSUME SearchInv, NEW at \in {"looking up", "filtering", "failed"},
           search.at # "answered", Search!GoesTo(at)
    PROVE  SearchInv'
<1>1. search.hits \in Seq(Chunks) /\ Unique(search.hits)
  BY DEF SearchInv, Searches
<1>2. search' = [search EXCEPT !.at = at, !.hits = search.hits]
  BY DEF SearchInv, Searches, Search!GoesTo
<1> QED
  BY <1>1, <1>2, SearchMoves

LEMMA AnswerKeeps ==
    ASSUME SearchInv, NEW hits \in Seq(Chunks), Avoids(hits, search.gone),
           NEW repeated \in BOOLEAN, NEW degraded \in BOOLEAN,
           ~repeated => Unique(hits),
           Search!Answer(hits, repeated, degraded)
    PROVE  SearchInv'
<1>1. PICK short \in BOOLEAN : short = Search!Insufficient(hits)
  BY DEF Search!Insufficient
<1>2. search' = [search EXCEPT !.at = "answered", !.hits = hits, !.repeated = repeated,
                              !.degraded = degraded, !.insufficient = short]
  BY <1>1 DEF Search!Answer
<1>3. /\ search' \in Searches /\ search'.at = "answered" /\ search'.hits = hits
      /\ search'.repeated = repeated /\ search'.gone = search.gone
      /\ search'.insufficient = short
  BY <1>2 DEF SearchInv, Searches, SearchPlaces
<1>4. (search.insufficient = Search!Insufficient(search.hits))'
  BY <1>1, <1>3 DEF Search!Insufficient
<1> QED
  BY <1>3, <1>4 DEF SearchInv

LEMMA RerankKeeps == SearchInv /\ Search!Rerank => SearchInv'
<1> SUFFICES ASSUME SearchInv, Search!Rerank
             PROVE  SearchInv'
  OBVIOUS
<1>1. /\ search.at = "ranking" /\ search.hits \in Seq(Chunks) /\ Unique(search.hits)
      /\ Avoids(search.hits, search.gone)
  BY DEF SearchInv, Searches, Search!Rerank, Search!At
<1>2. ASSUME NEW ranks \in Search!BoundedSeq(1 .. Len(search.hits), MaxRanks),
             Search!Answer(Search!Reranked(search.hits, ranks), ~Search!IsInjective(ranks),
                           FALSE)
      PROVE  SearchInv'
  <2>1. PICK hits \in Seq(Chunks) :
          /\ hits = Search!Reranked(search.hits, ranks)
          /\ Avoids(hits, search.gone)
          /\ Search!IsInjective(ranks) => Unique(hits)
    BY <1>1, RankedAgain
  <2>2. PICK repeated \in BOOLEAN : repeated = ~Search!IsInjective(ranks)
    OBVIOUS
  <2>3. Search!Answer(hits, repeated, FALSE)
    BY <1>2, <2>1, <2>2
  <2> QED
    BY <2>1, <2>2, <2>3, AnswerKeeps
<1>3. ASSUME NEW degraded \in BOOLEAN, Search!Answer(search.hits, FALSE, degraded)
      PROVE  SearchInv'
  BY <1>1, <1>3, AnswerKeeps
<1>4. CASE Search!GoesTo("failed")
  BY <1>1, <1>4, SearchGoes
<1> QED
  BY <1>2, <1>3, <1>4 DEF Search!Rerank

LEMMA FilterKeeps == SearchInv /\ Search!FilterVisibleHits => SearchInv'
<1> SUFFICES ASSUME SearchInv, Search!FilterVisibleHits
             PROVE  SearchInv'
  OBVIOUS
<1>1. PICK visible \in SUBSET (Chunks \ search.gone) :
        search' = [search EXCEPT !.at = "ranking",
                                 !.hits = Search!Only(visible, search.hits)]
  BY DEF Search!FilterVisibleHits
<1>2. search.at = "filtering" /\ search.hits \in Seq(Chunks) /\ Unique(search.hits)
  BY DEF SearchInv, Searches, Search!FilterVisibleHits, Search!At
<1>3. PICK hits \in Seq(Chunks) :
        /\ hits = Search!Only(visible, search.hits) /\ Unique(hits)
        /\ \A i \in 1 .. Len(hits) : hits[i] \in visible
  BY <1>2, Filtered
<1>4. search' = [search EXCEPT !.at = "ranking", !.hits = hits]
  BY <1>1, <1>3
<1>5. /\ search' \in Searches /\ search'.at = "ranking" /\ search'.hits = hits
      /\ search'.gone = search.gone
  BY <1>4 DEF SearchInv, Searches, SearchPlaces
<1>6. Avoids(hits, search.gone)
  BY <1>3 DEF Avoids
<1> QED
  BY <1>3, <1>5, <1>6 DEF SearchInv

LEMMA SearchStepKeeps ==
    ASSUME SearchInv,
           \/ Search!Fails \/ Search!SearchHybrid \/ Search!SearchExact
           \/ Search!FilterVisibleHits \/ Search!Rerank
    PROVE  SearchInv'
<1>1. CASE Search!Fails
  BY <1>1, SearchGoes DEF Search!Fails
<1>2. CASE Search!SearchHybrid
  <2>1. CASE Search!GoesTo("looking up")
    BY <1>2, <2>1, SearchGoes DEF Search!SearchHybrid, Search!At
  <2>2. ASSUME NEW hits \in Search!Recalls,
               search' = [search EXCEPT !.at = "looking up", !.hits = hits]
        PROVE  SearchInv'
    BY <2>2, Recalled, SearchMoves
  <2> QED
    BY <1>2, <2>1, <2>2 DEF Search!SearchHybrid
<1>3. CASE Search!SearchExact
  <2>1. search.at = "looking up" /\ search.hits \in Seq(Chunks) /\ Unique(search.hits)
    BY <1>3 DEF SearchInv, Searches, Search!SearchExact, Search!At
  <2>2. CASE Search!GoesTo("filtering")
    BY <2>1, <2>2, SearchGoes
  <2>3. ASSUME NEW hits \in Search!Recalls,
               search' = [search EXCEPT !.at = "filtering",
                                        !.hits = Search!AppendUnique(@, hits)]
        PROVE  SearchInv'
    <3>1. PICK both \in Seq(Chunks) :
            both = Search!AppendUnique(search.hits, hits) /\ Unique(both)
      BY <2>1, Recalled, AppendedUnique
    <3>2. search' = [search EXCEPT !.at = "filtering", !.hits = both]
      BY <2>3, <3>1
    <3> QED
      BY <3>1, <3>2, SearchMoves
  <2> QED
    BY <1>3, <2>2, <2>3 DEF Search!SearchExact
<1> QED
  BY <1>1, <1>2, <1>3, FilterKeeps, RerankKeeps

LEMMA SearchKeeps == SearchInv /\ [RequestNext]_all => SearchInv'
<1> SUFFICES ASSUME SearchInv, [RequestNext]_all
             PROVE  SearchInv'
  OBVIOUS
<1>1. CASE UNCHANGED search
  BY <1>1 DEF SearchInv, Avoids, Unique, Search!Insufficient
<1>2. CASE SearchExamples
  BY <1>2, BeginKeeps DEF SearchExamples
<1>3. CASE SearchByIdentifier
  BY <1>3, BeginKeeps DEF SearchByIdentifier
<1>4. CASE SearchGoesOn
  BY <1>4, SearchStepKeeps DEF SearchGoesOn
<1>5. CASE StartDraft
  <2>1. search' = Search!Unstarted
    BY <1>5 DEF StartDraft
  <2>2. search' \in Searches /\ search'.at = "unstarted" /\ search'.hits = <<>>
    BY <2>1, NoHits DEF Search!Unstarted, Searches, SearchPlaces
  <2> QED
    BY <2>2, NoHits DEF SearchInv
<1> QED
  BY <1>1, <1>2, <1>3, <1>4, <1>5
     DEF RequestNext, all, Dialogue, ConsumeContext, AssemblePlan, Kept

-----------------------------------------------------------------------------
(***************************************************************************)
(* The plan: its examples are those of the last search, and while the draft *)
(* is prepared the plan is marked when the search was or when there are too *)
(* few examples.                                                            *)
(***************************************************************************)
Marked ==
    /\ search.at = "answered"
    /\ search.insufficient => plan.insufficient
    /\ Len(plan.examples) < MinimumExamples => plan.insufficient
    /\ ~search.repeated => Unique(plan.examples)

PlanInv ==
    /\ plan \in [ready : BOOLEAN, examples : Seq(Chunks), insufficient : BOOLEAN]
    /\ plan.examples # <<>> =>
           search.at = "answered" /\ Avoids(plan.examples, search.gone)
    /\ plan.ready /\ Preparing => Marked

LEMMA Selects ==
    ASSUME NEW hits \in Seq(Chunks), NEW usable
    PROVE  /\ Selected(hits, usable) \in Seq(Chunks)
           /\ \A gone : Avoids(hits, gone) => Avoids(Selected(hits, usable), gone)
           /\ Unique(hits) => Unique(Selected(hits, usable))
<1> DEFINE kept == Search!Only(usable, hits)
           n == IF Len(kept) < TopK THEN Len(kept) ELSE TopK
<1>1. /\ kept \in Seq(Chunks)
      /\ \A gone : Avoids(hits, gone) => Avoids(kept, gone)
      /\ Unique(hits) => Unique(kept)
  BY Filtered
<1>2. Selected(hits, usable) = SubSeq(kept, 1, n)
  BY DEF Selected
<1> HIDE DEF kept
<1>3. Len(kept) \in Nat /\ TopK \in Nat /\ \A i \in 1 .. Len(kept) : kept[i] \in Chunks
  BY <1>1, BoundsAssumption, LenProperties, ElementOfSeq
<1>4. n \in Nat /\ n <= Len(kept)
  BY <1>3
<1> HIDE DEF n
<1>5. \A i \in 1 .. n : i \in 1 .. Len(kept) /\ kept[i] \in Chunks
  BY <1>3, <1>4
<1>6. /\ SubSeq(kept, 1, n) \in Seq(Chunks)
      /\ Len(SubSeq(kept, 1, n)) = n
      /\ \A i \in 1 .. n : SubSeq(kept, 1, n)[i] = kept[i]
  <2>1. /\ SubSeq(kept, 1, n) \in Seq(Chunks)
        /\ Len(SubSeq(kept, 1, n)) = IF 1 <= n THEN n - 1 + 1 ELSE 0
        /\ \A i \in 1 .. n - 1 + 1 : SubSeq(kept, 1, n)[i] = kept[1 + i - 1]
    BY <1>4, <1>5, SubSeqProperties
  <2>2. n - 1 + 1 = n /\ \A i \in 1 .. n : 1 + i - 1 = i
    BY <1>4
  <2>3. (IF 1 <= n THEN n ELSE 0) = n
    BY <1>4
  <2> QED
    BY <2>1, <2>2, <2>3
<1> QED
  BY <1>1, <1>2, <1>5, <1>6 DEF Avoids, Unique

\* A draft that is prepared is so from the beginning.
LEMMA StaysPrepared ==
    ASSUME [Next]_vars, orchestrator'.at = "preparing"
    PROVE  orchestrator' = orchestrator
<1>1. CASE Start \/ Wrap
  BY <1>1 DEF Start, Refuse, OpenFails, Open, Wrap, OrchestratorGoes
<1>2. CASE UNCHANGED vars \/ ProviderStep \/ GatewayStep \/ CallerStep \/ CallerCancels
  BY <1>2 DEF vars, ProviderStep, ReadDelta, ReadFinish, ReadFails, Reads,
     GatewayStep, GatewayReceives, GatewayEnds, CallerStep, Read,
     ReadFromGateway, CallerCancels
<1>3. CASE LoopTop \/ SeesCancel \/ OrchestratorReceives \/ Send \/ Cancel
  BY <1>3 DEF LoopTop, SeesCancel, OrchestratorReceives, Send, Cancel, OrchestratorGoes
<1> QED
  BY <1>1, <1>2, <1>3 DEF Next, OrchestratorStep

\* Where the plan and the answer of the search stay, so does what is known.
LEMMA PlanStays ==
    ASSUME PlanInv, plan' = plan, Preparing' => Preparing,
           search.at = "answered" => search' = search
    PROVE  PlanInv'
<1>1. plan.examples # <<>> => search'.at = "answered" /\ Avoids(plan.examples, search'.gone)
  BY DEF PlanInv
<1>2. plan.ready /\ Preparing' => Marked'
  BY DEF PlanInv, Marked, Unique
<1> QED
  BY <1>1, <1>2 DEF PlanInv, Avoids

LEMMA AssembleKeeps == SearchInv /\ AssemblePlan => PlanInv'
<1> SUFFICES ASSUME SearchInv, AssemblePlan
             PROVE  PlanInv'
  OBVIOUS
<1>1. PICK usable \in SUBSET Chunks :
        plan' = [ready |-> TRUE, examples |-> Selected(search.hits, usable),
                 insufficient |->
                     \/ search.insufficient
                     \/ MinimumExamples > 0
                          /\ Len(Selected(search.hits, usable)) < MinimumExamples]
  BY DEF AssemblePlan
<1>2. /\ search.at = "answered" /\ search' = search
      /\ search.hits \in Seq(Chunks) /\ Avoids(search.hits, search.gone)
      /\ ~search.repeated => Unique(search.hits)
      /\ search.insufficient \in BOOLEAN
  BY DEF SearchInv, Searches, AssemblePlan
<1>3. PICK examples \in Seq(Chunks) :
        /\ examples = Selected(search.hits, usable)
        /\ Avoids(examples, search.gone)
        /\ ~search.repeated => Unique(examples)
  BY <1>2, Selects
<1>4. PICK short \in BOOLEAN :
        short <=> \/ search.insufficient
                  \/ MinimumExamples > 0 /\ Len(examples) < MinimumExamples
  OBVIOUS
<1>5. plan' = [ready |-> TRUE, examples |-> examples, insufficient |-> short]
  BY <1>1, <1>2, <1>3, <1>4
<1>6. /\ plan' \in [ready : BOOLEAN, examples : Seq(Chunks), insufficient : BOOLEAN]
      /\ plan'.examples = examples /\ plan'.insufficient = short
  BY <1>3, <1>5
<1>7. Len(examples) < MinimumExamples => MinimumExamples > 0
  BY <1>3, BoundsAssumption, LenProperties
<1>8. Marked'
  BY <1>2, <1>3, <1>4, <1>6, <1>7 DEF Marked
<1> QED
  BY <1>2, <1>3, <1>6, <1>8 DEF PlanInv

LEMMA PlanKeeps == SearchInv /\ PlanInv /\ [RequestNext]_all => PlanInv'
<1> SUFFICES ASSUME SearchInv, PlanInv, [RequestNext]_all
             PROVE  PlanInv'
  OBVIOUS
<1>1. CASE AssemblePlan
  BY <1>1, AssembleKeeps
<1>2. CASE StartDraft
  <2>1. /\ plan' = [ready |-> plan.ready, examples |-> <<>>,
                    insufficient |-> plan.insufficient]
        /\ Start
    BY <1>2 DEF StartDraft
  <2>2. /\ plan' \in [ready : BOOLEAN, examples : Seq(Chunks), insufficient : BOOLEAN]
        /\ plan'.examples = <<>>
    BY <2>1, NoHits DEF PlanInv
  <2>3. ~Preparing'
    BY <2>1 DEF Start, Refuse, OpenFails, Open, OrchestratorGoes, Preparing
  <2> QED
    BY <2>2, <2>3 DEF PlanInv
<1>3. CASE SearchExamples \/ SearchByIdentifier \/ SearchGoesOn
  <2>1. plan' = plan /\ (Preparing' => Preparing)
    BY <1>3 DEF SearchExamples, SearchByIdentifier, SearchGoesOn, Preparing, vars
  <2>2. search.at # "answered"
    BY <1>3 DEF SearchExamples, SearchByIdentifier, SearchGoesOn, Search!Begin, Search!Refuses,
       Search!Fails, Search!SearchHybrid, Search!SearchExact, Search!FilterVisibleHits,
       Search!Rerank, Search!At
  <2> QED
    BY <2>1, <2>2, PlanStays
<1>4. CASE UNCHANGED <<search, plan>> /\ [Next]_vars
  <2>1. Preparing' => Preparing
    BY <1>4, StaysPrepared DEF Preparing
  <2> QED
    BY <1>4, <2>1, PlanStays
<1>5. CASE UNCHANGED all \/ Dialogue
  BY <1>4, <1>5 DEF all, Dialogue
<1>6. CASE ConsumeContext
  BY <1>4, <1>6 DEF ConsumeContext, Next, Start
<1>7. CASE \/ Kept(ProviderStep) \/ Kept(GatewayStep) \/ Kept(OrchestratorStep)
           \/ Kept(CallerStep) \/ Kept(CallerCancels)
  BY <1>4, <1>7 DEF Kept, Next
<1> QED
  BY <1>1, <1>2, <1>3, <1>5, <1>6, <1>7 DEF RequestNext

LEMMA Searching == RequestSpec => [](SearchInv /\ PlanInv)
<1>1. RequestInit => SearchInv /\ PlanInv
  <2> SUFFICES ASSUME RequestInit
               PROVE  SearchInv /\ PlanInv
    OBVIOUS
  <2>1. search \in Searches /\ search.at = "unstarted" /\ search.hits = <<>>
    BY NoHits DEF RequestInit, Search!Unstarted, Searches, SearchPlaces
  <2>2. /\ plan \in [ready : BOOLEAN, examples : Seq(Chunks), insufficient : BOOLEAN]
        /\ plan.examples = <<>> /\ ~plan.ready
    BY NoHits DEF RequestInit, NoPlan
  <2> QED
    BY <2>1, <2>2, NoHits DEF SearchInv, PlanInv
<1> QED
  BY <1>1, SearchKeeps, PlanKeeps, PTL DEF RequestSpec

(* What was deleted before a search began is neither among its answers nor  *)
(* among the examples of a prompt, whatever the index still returns: the    *)
(* hits pass the authority (FilterVisibleHits) and only they are used.      *)
THEOREM DeletedAreNoExamples == RequestSpec => []NoDeletedExample
<1>1. SearchInv /\ PlanInv => NoDeletedExample
  <2> SUFFICES ASSUME SearchInv, PlanInv
               PROVE  NoDeletedExample
    OBVIOUS
  <2>1. ASSUME NEW s \in Seq(Chunks), Avoids(s, search.gone)
        PROVE  ToSet(s) \cap search.gone = {}
    BY <2>1, LenProperties DEF ToSet, Avoids
  <2>2. search.at = "answered" => ToSet(search.hits) \cap search.gone = {}
    BY <2>1 DEF SearchInv, Searches
  <2>3. plan.examples \in Seq(Chunks) /\ Avoids(plan.examples, search.gone)
    BY NoHits DEF PlanInv
  <2>4. ToSet(plan.examples) \cap search.gone = {}
    BY <2>1, <2>3
  <2> QED
    BY <2>2, <2>4 DEF NoDeletedExample
<1> QED
  BY <1>1, Searching, PTL

LEMMA UniqueCounted ==
    ASSUME NEW s \in Seq(Chunks), Unique(s)
    PROVE  Cardinality(ToSet(s)) = Len(s)
<1>1. Len(s) \in Nat /\ s \in [1 .. Len(s) -> Chunks] /\ DOMAIN s = 1 .. Len(s)
  BY LenProperties
<1>2. s \in [1 .. Len(s) -> ToSet(s)] /\ \A x \in ToSet(s) : \E i \in 1 .. Len(s) : s[i] = x
  BY <1>1 DEF ToSet
<1>3. s \in Surjection(1 .. Len(s), ToSet(s))
  BY <1>2 DEF Surjection
<1>4. s \in Injection(1 .. Len(s), ToSet(s))
  BY <1>1, <1>2 DEF Injection, IsInjective, Unique
<1>5. IsFiniteSet(1 .. Len(s)) /\ Cardinality(1 .. Len(s)) = Len(s)
  <2>1. Cardinality(1 .. Len(s)) = IF 1 > Len(s) THEN 0 ELSE Len(s) - 1 + 1
    BY <1>1, FS_Interval
  <2> QED
    BY <1>1, <2>1, FS_Interval
<1> QED
  BY <1>3, <1>4, <1>5, FS_Surjection

(* A draft from too few hits or too few examples is marked: the search      *)
(* counts its hits and the prompt its examples (insufficientMatches in      *)
(* service.go and fewshot.go), and both count right unless the re-ranking   *)
(* service has named a hit twice.                                           *)
THEOREM TooFewAreMarked == RequestSpec => []ShortageIsMarked
<1>1. SearchInv /\ PlanInv => ShortageIsMarked
  <2> SUFFICES ASSUME SearchInv, PlanInv, plan.ready, Preparing, ~search.repeated
               PROVE  /\ Cardinality(ToSet(search.hits)) < ScarceThreshold
                           => plan.insufficient
                      /\ Cardinality(ToSet(plan.examples)) < MinimumExamples
                           => plan.insufficient
    BY DEF ShortageIsMarked
  <2>1. Marked
    BY DEF PlanInv
  <2>2. /\ search.hits \in Seq(Chunks) /\ Unique(search.hits)
        /\ search.insufficient = Search!Insufficient(search.hits)
    BY <2>1 DEF Marked, SearchInv, Searches
  <2>3. plan.examples \in Seq(Chunks) /\ Unique(plan.examples)
    BY <2>1 DEF Marked, PlanInv
  <2>4. /\ Cardinality(ToSet(search.hits)) = Len(search.hits)
        /\ Cardinality(ToSet(plan.examples)) = Len(plan.examples)
    BY <2>2, <2>3, UniqueCounted
  <2>5. Len(search.hits) < ScarceThreshold => search.insufficient
    <3>1. Len(search.hits) < ScarceThreshold => ScarceThreshold > 0
      BY <2>2, BoundsAssumption, LenProperties
    <3> QED
      BY <2>2, <3>1 DEF Search!Insufficient
  <2> QED
    BY <2>1, <2>4, <2>5 DEF Marked
<1> QED
  BY <1>1, Searching, PTL

=============================================================================
