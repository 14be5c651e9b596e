--------------------------- MODULE TelemetryProofs ---------------------------
(***************************************************************************)
(* What a reader of a job is handed, proved for rings, tails, connections  *)
(* and numbers of lines of any size.  The ring is the run of lines Low + 1 *)
(* to seq; what a stream copies from it is a run too; and of every line    *)
(* since the reader was promised one it is known where it is.              *)
(***************************************************************************)
EXTENDS Telemetry, FiniteSetTheorems, SequenceTheorems, TLAPS

Low == seq - Len(ring)

\* The ring holds the newest lines, all of them until it is full.
RingInv ==
    /\ Len(ring) <= seq
    /\ Len(ring) = seq \/ Len(ring) = RingSize
    /\ \A i \in 1..Len(ring) : ring[i] = Low + i

\* The lines the thread of the lease has still to log on its way.
Owed(w) == IF w \in {"boot", "reset", "published", "phased"} THEN 2
           ELSE IF w \in {"working", "done", "recorded"} THEN 1 ELSE 0

\* There is room under the bound for the lines that are still to come.
BoundInv ==
    /\ work \in {"boot", "reset"} => heart = "over"
    /\ seq + Owed(work) + (IF heart = "over" /\ work \notin {"boot", "reset"} THEN 0 ELSE 1) <= MaxLines

\* Which thread is where, for the stream and for the poll: the stream promises
\* nothing before its headers, a poll has one answer at most.
WatchInv == reader = "watch" =>
    /\ tpc # "asked"
    /\ cursor = None <=> tpc \in {"none", "accepted"}
    /\ tpc \in {"none", "accepted", "opened"} =>
           wire = <<>> /\ got = <<>> /\ (cpc # "ended" => from = MaxLines)
    /\ cpc = "start" => tpc = "none"
    /\ cpc = "wait" => tpc \in {"accepted", "opened"}
    /\ cpc = "reading" => tpc \notin {"none", "accepted", "opened"}
    /\ cpc # "sleep"
    /\ todo # <<>> => tpc = "write"

FollowInv == reader = "follow" =>
    /\ tpc \in {"none", "asked", "snap", "send"} /\ todo = <<>> /\ cpc # "reading"
    /\ tpc # "none" => cpc = "wait" /\ wire = <<>>
    /\ wire # <<>> => cpc = "wait" /\ Len(wire) = 1 /\ wire[1].kind = "snap"
    /\ cursor = None => got = <<>>
    /\ cpc # "ended" => misses < MaxMisses

\* Lines are handed over, sent and copied in their order, up to the cursor and
\* above it.
OrderInv ==
    /\ cursor # None => cursor <= seq
    /\ \A i, j \in 1..Len(got) : i < j => got[i] < got[j]
    /\ \A i \in 1..Len(got) : cursor # None /\ got[i] <= cursor
    /\ \A k \in 1..Len(wire) : wire[k].kind = "line" =>
           /\ cursor # None /\ wire[k].n <= cursor
           /\ \A i \in 1..Len(got) : got[i] < wire[k].n
           /\ \A l \in 1..k-1 : wire[l].kind = "line" => wire[l].n < wire[k].n
    /\ todo # <<>> => /\ \A i \in 1..Len(todo) : todo[i] = todo[1] + i - 1
                      /\ cursor # None /\ cursor < todo[1] /\ todo[Len(todo)] <= seq
                      /\ todo[1] <= cursor + 1 \/ todo[1] <= Low + 1

\* The lines a reader that holds g has when it comes to place k of the wire w.
Ahead(g, w, k) == ToSet(g) \union {w[l].n : l \in {m \in 1..(k - 1) : w[m].kind = "line"}}

AheadOfAll == Ahead(got, wire, Len(wire) + 1)

\* A line that was promised is handed over, sent, copied, kept or overrun.
CoverInv == cpc # "ended" =>
    /\ cursor # None => \A n \in (from + 1)..cursor : n \in AheadOfAll \union overrun
    /\ \A n \in (from + 1)..Low :
           (cursor = None \/ n > cursor) => n \in ToSet(todo) \union overrun

\* The snapshot of a poll goes on where the cursor c is.
Continues(snap, c, f, o) ==
    /\ \A i, j \in 1..Len(snap.lines) : i < j => snap.lines[i] < snap.lines[j]
    /\ \A i \in 1..Len(snap.lines) : snap.lines[i] <= snap.seq
    /\ c # None => /\ c <= snap.seq
                   /\ \A i \in 1..Len(snap.lines) : c < snap.lines[i]
    /\ \A n \in (f + 1)..snap.seq :
           \/ c # None /\ n <= c
           \/ n \in ToSet(snap.lines) \union o

\* The snapshot of a stream has its tail, or comes after it.
Completes(snap, before, f, o) ==
    \A n \in (f + 1)..snap.seq :
        \/ n \in before \union ToSet(snap.lines) \union o
        \/ n <= snap.seq - TailSize /\ \A m \in before : n > m

Accounts(snap, before, r, c, f, o) ==
    IF r = "follow" THEN Continues(snap, c, f, o) ELSE Completes(snap, before, f, o)

\* Snapshots account for the lines up to theirs, those on the wire and the draft.
SnapInv == cpc # "ended" =>
    /\ \A k \in 1..Len(wire) : wire[k].kind = "snap" =>
           /\ wire[k].snap.seq <= seq
           /\ Accounts(wire[k].snap, Ahead(got, wire, k), reader, cursor, from, overrun)
    /\ tpc \in {"snap", "send"} =>
           /\ draft.seq <= seq
           /\ Accounts(draft, AheadOfAll, reader, cursor, from, overrun)

IInv == /\ TypeOK /\ BoundInv /\ RingInv /\ WatchInv /\ FollowInv /\ OrderInv /\ CoverInv /\ SnapInv
        /\ (cpc = "ended" => wire = <<>>) /\ DoneReaderHasTheEnd

-----------------------------------------------------------------------------
(* What the ring gives out. *)

LEMMA RingIs ==
    ASSUME TypeOK, RingInv
    PROVE  /\ seq \in Nat /\ seq <= MaxLines /\ MaxLines \in Nat
           /\ Low \in Nat /\ Len(ring) \in Nat /\ seq = Low + Len(ring)
           /\ Len(ring) <= RingSize /\ (Low = 0 \/ Len(ring) = RingSize) /\ RingSize \in Nat
           /\ DOMAIN ring = 1..Len(ring) /\ \A i \in 1..Len(ring) : ring[i] = Low + i
           /\ \A n : n \in ToSet(ring) <=> n \in (Low + 1)..seq
<1>1. seq \in 0..MaxLines /\ MaxLines \in Nat /\ Len(ring) \in Nat /\ RingSize \in Nat /\ Len(ring) <= RingSize
  BY TelemetryAssumption, LenProperties DEF TypeOK
<1>2. Low = seq - Len(ring) /\ Len(ring) <= seq
  BY DEF RingInv, Low
<1>3. seq \in Nat /\ seq <= MaxLines /\ Low \in Nat /\ seq = Low + Len(ring)
  BY ONLY <1>1, <1>2
<1>4. DOMAIN ring = 1..Len(ring) /\ \A i \in 1..Len(ring) : ring[i] = Low + i
  BY LenProperties DEF TypeOK, RingInv
<1>5. ASSUME NEW n PROVE n \in ToSet(ring) <=> n \in (Low + 1)..seq
  <2>1. ASSUME n \in (Low + 1)..seq PROVE n \in ToSet(ring)
    <3>1. n - Low \in 1..Len(ring) /\ Low + (n - Low) = n
      BY ONLY <1>1, <1>3, <2>1
    <3> QED BY <1>4, <3>1 DEF ToSet
  <2>2. ASSUME n \in ToSet(ring) PROVE n \in (Low + 1)..seq
    <3>1. PICK i \in 1..Len(ring) : n = Low + i
      BY <1>4, <2>2 DEF ToSet
    <3> QED BY ONLY <1>1, <1>3, <3>1
  <2> QED BY <2>1, <2>2
<1>6. Low = 0 \/ Len(ring) = RingSize
  <2>1. Len(ring) = seq => Low = 0
    BY ONLY <1>1, <1>3
  <2> QED BY <2>1 DEF RingInv
<1> QED BY <1>1, <1>3, <1>4, <1>5, <1>6

\* The newest lines are the run that ends with seq.
LEMMA NewestIs ==
    ASSUME TypeOK, RingInv, NEW c \in Nat, c <= Len(ring)
    PROVE  /\ Newest(c) \in Seq(Lines) /\ Len(Newest(c)) = c
           /\ \A i \in 1..c : Newest(c)[i] = seq - c + i
           /\ \A n : n \in ToSet(Newest(c)) <=> n \in (seq - c + 1)..seq
<1> DEFINE m == Len(ring) - c + 1
<1>1. /\ seq \in Nat /\ Len(ring) \in Nat /\ Low \in Nat /\ seq = Low + Len(ring)
      /\ m \in Int /\ m >= 1 /\ \A i \in 1..Len(ring) : ring[i] \in Lines /\ ring[i] = Low + i
  BY RingIs, ElementOfSeq DEF TypeOK
<1>2. \A i \in m..Len(ring) : ring[i] \in Lines
  BY <1>1
<1>3. Newest(c) = SubSeq(ring, m, Len(ring))
  BY DEF Newest
<1>4. m = Len(ring) - c + 1
  OBVIOUS
<1> HIDE DEF m
<1>5. /\ Newest(c) \in Seq(Lines)
      /\ Len(Newest(c)) = IF m <= Len(ring) THEN Len(ring) - m + 1 ELSE 0
      /\ \A i \in 1..(Len(ring) - m + 1) : Newest(c)[i] = ring[m + i - 1]
  BY <1>1, <1>2, <1>3, SubSeqProperties
<1>6. Len(Newest(c)) = c
  BY <1>1, <1>4, <1>5
<1>7. \A i \in 1..c : Newest(c)[i] = seq - c + i
  BY <1>1, <1>4, <1>5
<1>8. ASSUME NEW n PROVE n \in ToSet(Newest(c)) <=> n \in (seq - c + 1)..seq
  <2>1. DOMAIN Newest(c) = 1..c
    BY <1>5, <1>6, LenProperties
  <2>2. ASSUME n \in (seq - c + 1)..seq PROVE n \in ToSet(Newest(c))
    <3>1. n - (seq - c) \in 1..c /\ seq - c + (n - (seq - c)) = n
      BY <1>1, <2>2
    <3> QED BY <1>7, <2>1, <3>1 DEF ToSet
  <2>3. ASSUME n \in ToSet(Newest(c)) PROVE n \in (seq - c + 1)..seq
    BY <1>1, <1>7, <2>1, <2>3 DEF ToSet
  <2> QED BY <2>2, <2>3
<1> QED BY <1>5, <1>6, <1>7, <1>8

\* Job.since gives the run that begins above the cursor or with the oldest line.
LEMMA SinceIs ==
    ASSUME TypeOK, RingInv, NEW n \in 0..seq
    PROVE  \E c \in Nat :
              /\ Since(n) = Newest(c) /\ c <= Len(ring)
              /\ seq = c + (IF n > Low THEN n ELSE Low)
<1> DEFINE above == {i \in DOMAIN ring : ring[i] > n}
           first == IF n > Low THEN n - Low + 1 ELSE 1
<1>1. seq \in Nat /\ Len(ring) \in Nat /\ Low \in Nat /\ seq = Low + Len(ring) /\ n \in Nat /\ n <= seq
  BY RingIs DEF TypeOK
<1>2. /\ above = first..Len(ring) /\ first \in Nat
      /\ first = IF n > Low THEN n - Low + 1 ELSE 1
  <2>1. first \in Nat /\ first >= 1
    BY ONLY <1>1
  <2>2. DOMAIN ring = 1..Len(ring) /\ \A i \in 1..Len(ring) : ring[i] = Low + i
    BY LenProperties DEF TypeOK, RingInv
  <2>3. ASSUME NEW i \in 1..Len(ring) PROVE Low + i > n <=> i >= first
    BY ONLY <1>1, <2>3
  <2>4. above = {i \in 1..Len(ring) : Low + i > n}
    BY <2>2
  <2>5. first..Len(ring) = {i \in 1..Len(ring) : i >= first}
    <3> HIDE DEF first
    <3> QED BY ONLY <1>1, <2>1
  <2> QED BY <2>1, <2>3, <2>4, <2>5
<1> HIDE DEF above, first
<1>3. Cardinality(above) = IF first > Len(ring) THEN 0 ELSE Len(ring) - first + 1
  <2>1. first \in Int /\ Len(ring) \in Int
    BY <1>1, <1>2
  <2>2. Cardinality(first..Len(ring)) = IF first > Len(ring) THEN 0 ELSE Len(ring) - first + 1
    BY ONLY <2>1, FS_Interval
  <2> QED BY <1>2, <2>2
<1>4. /\ Cardinality(above) \in Nat /\ Cardinality(above) <= Len(ring)
      /\ seq = Cardinality(above) + (IF n > Low THEN n ELSE Low)
  <2>1. CASE n > Low
    BY ONLY <1>1, <1>2, <1>3, <2>1
  <2>2. CASE ~(n > Low)
    BY ONLY <1>1, <1>2, <1>3, <2>2
  <2> QED BY <2>1, <2>2
<1>5. Since(n) = Newest(Cardinality(above))
  BY DEF Since, above
<1> QED BY <1>4, <1>5

-----------------------------------------------------------------------------
(* What a step leaves alone. *)

LEMMA AccountsMore ==
    ASSUME NEW snap, NEW before, NEW r, NEW c, NEW f, NEW o, NEW p, o \subseteq p,
           Accounts(snap, before, r, c, f, o)
    PROVE  Accounts(snap, before, r, c, f, p)
<1>1. CASE r = "follow"
  BY <1>1 DEF Accounts, Continues
<1>2. CASE r # "follow"
  BY <1>2 DEF Accounts, Completes
<1> QED BY <1>1, <1>2

LEMMA SnapKept ==
    ASSUME IInv, UNCHANGED <<reader, cursor, from, got, wire>>, overrun \subseteq overrun',
           seq' \in Nat, seq <= seq', cpc = "ended" => cpc' = "ended",
           tpc' \in {"snap", "send"} => /\ tpc \in {"snap", "send"}
                                       /\ draft'.seq = draft.seq /\ draft'.lines = draft.lines
    PROVE  SnapInv'
<1> SUFFICES ASSUME cpc' # "ended" PROVE SnapInv'
  BY DEF SnapInv
<1>1. seq \in Nat /\ draft.seq \in Nat /\ \A k \in 1..Len(wire) : wire[k].kind = "snap" => wire[k].snap.seq \in Nat
  <2>1. \A k \in 1..Len(wire) : wire[k] \in Frames
    BY ElementOfSeq DEF IInv, TypeOK
  <2> QED BY <2>1 DEF IInv, TypeOK, Frames, Snapshots
<1>2. ASSUME NEW k \in 1..Len(wire'), wire'[k].kind = "snap"
      PROVE  /\ wire'[k].snap.seq <= seq'
             /\ Accounts(wire'[k].snap, Ahead(got', wire', k), reader', cursor', from', overrun')
  <2>1. /\ wire[k].snap.seq <= seq
        /\ Accounts(wire[k].snap, Ahead(got, wire, k), reader, cursor, from, overrun)
    BY <1>2 DEF IInv, SnapInv
  <2>2. wire[k].snap.seq <= seq'
    BY <1>1, <1>2, <2>1
  <2> QED BY <2>1, <2>2, AccountsMore
<1>3. ASSUME tpc' \in {"snap", "send"}
      PROVE  /\ draft'.seq <= seq'
             /\ Accounts(draft', AheadOfAll, reader, cursor, from, overrun')
  <2>1. draft.seq <= seq /\ Accounts(draft, AheadOfAll, reader, cursor, from, overrun)
    BY <1>3 DEF IInv, SnapInv
  <2>2. draft'.seq = draft.seq /\ draft'.lines = draft.lines
    BY <1>3
  <2>3. Accounts(draft', AheadOfAll, reader, cursor, from, overrun)
    BY <2>1, <2>2 DEF Accounts, Continues, Completes
  <2> QED BY <1>1, <2>1, <2>2, <2>3, AccountsMore
<1>4. AheadOfAll' = AheadOfAll
  BY DEF AheadOfAll
<1> QED BY <1>2, <1>3, <1>4 DEF SnapInv

LEMMA OrderKept == ASSUME OrderInv, UNCHANGED <<seq, ring, cursor, got, wire, todo>> PROVE OrderInv'
BY DEF OrderInv, Low

LEMMA CoverKept ==
    ASSUME CoverInv, UNCHANGED <<seq, ring, cursor, got, wire, todo, from, overrun>>,
           cpc = "ended" => cpc' = "ended"
    PROVE  CoverInv'
BY DEF CoverInv, Low, AheadOfAll

LEMMA EndKept ==
    ASSUME DoneReaderHasTheEnd, UNCHANGED <<why, last, from, got, reader>>, overrun \subseteq overrun'
    PROVE  DoneReaderHasTheEnd'
BY DEF DoneReaderHasTheEnd

\* Nothing that concerns a reader has changed.
LEMMA QuietStep ==
    ASSUME IInv, TypeOK', BoundInv',
           UNCHANGED <<seq, ring, reader, cpc, why, misses, got, last, tpc, todo, draft, cursor, wire, ghosts>>
    PROVE  IInv'
<1>1. RingInv' /\ WatchInv' /\ FollowInv' /\ (cpc' = "ended" => wire' = <<>>)
  BY DEF IInv, RingInv, WatchInv, FollowInv, Low, ghosts
<1>2. OrderInv' /\ CoverInv' /\ DoneReaderHasTheEnd'
  BY OrderKept, CoverKept, EndKept DEF IInv, ghosts
<1>3. SnapInv'
  BY SnapKept DEF IInv, TypeOK, ghosts
<1> QED BY <1>1, <1>2, <1>3 DEF IInv

-----------------------------------------------------------------------------
(* The threads that log, and the rest of the world. *)

LEMMA WorldStep ==
    ASSUME IInv,
           \/ RunResets \/ Publish \/ SetPhase \/ DeliverDone \/ DeliverError \/ MarkLost \/ Kill
           \/ SnapshotDue
    PROVE  IInv'
<1>1. UNCHANGED <<seq, ring, reader, cpc, why, misses, got, last, tpc, todo, draft, cursor, wire, ghosts, locked>>
  BY DEF RunResets, Publish, SetPhase, DeliverDone, DeliverError, MarkLost, Kill, SnapshotDue,
         jobvars, leasevars, clientvars, servevars, ghosts, inside, serving, outside
<1>2. vm' \in {"up", "down"} /\ due' \in BOOLEAN
  BY DEF IInv, TypeOK, RunResets, Publish, SetPhase, DeliverDone, DeliverError, MarkLost, Kill, SnapshotDue,
         jobvars, leasevars, clientvars, servevars, ghosts, inside, serving, outside
<1>3. lease' \in [done : BOOLEAN, lost : BOOLEAN, error : BOOLEAN]
  BY DEF IInv, TypeOK, RunResets, Publish, SetPhase, DeliverDone, DeliverError, MarkLost, Kill, SnapshotDue,
         jobvars, leasevars, clientvars, servevars, ghosts, inside, serving, outside
<1>4. work' \in WorkStates /\ heart' \in {"beating", "marked", "over"}
  BY DEF IInv, TypeOK, WorkStates, RunResets, Publish, SetPhase, DeliverDone, DeliverError, MarkLost, Kill,
         SnapshotDue, jobvars, leasevars, clientvars, servevars, ghosts, inside, serving, outside
<1>5. TypeOK'
  BY <1>1, <1>2, <1>3, <1>4 DEF IInv, TypeOK, ghosts
<1>6. BoundInv'
  <2>1. seq \in Nat /\ MaxLines \in Nat /\ BoundInv /\ heart \in {"beating", "marked", "over"} /\ seq' = seq
    BY <1>1, RingIs DEF IInv, TypeOK
  <2>2. \/ UNCHANGED <<work, heart>>
        \/ work = "boot" /\ work' = "reset" /\ heart' = heart
        \/ work = "reset" /\ work' = "published" /\ heart' = "beating"
        \/ work = "reset" /\ work' = "unleased" /\ heart' = heart
        \/ work = "working" /\ work' = "phased" /\ heart' = heart /\ seq + 3 < MaxLines
        \/ work = "working" /\ work' = "done" /\ heart' = heart
        \/ work = "done" /\ work' = "recorded" /\ heart' = heart
        \/ heart = "beating" /\ heart' = "marked" /\ work' = work
    <3>1. seq < MaxLines - 3 <=> seq + 3 < MaxLines
      BY <2>1
    <3> QED
      BY <3>1 DEF RunResets, Publish, SetPhase, MayLog, Reserved, DeliverDone, DeliverError, MarkLost, Kill,
             SnapshotDue, leasevars, inside, outside
  <2> QED BY <2>1, <2>2 DEF BoundInv, Owed
<1> QED BY <1>1, <1>5, <1>6, QuietStep

\* Job.log drops the oldest line at most, and records it if the reader lacks it.
LEMMA LogRing ==
    ASSUME IInv, Log, seq + 1 <= MaxLines
    PROVE  /\ seq' = seq + 1 /\ ring' \in Seq(Lines) /\ Len(ring') <= RingSize
           /\ RingInv' /\ overrun \subseteq overrun' /\ overrun' \subseteq Lines
           /\ Low' # Low => /\ Low' = Low + 1
                             /\ \/ Low + 1 \in ToSet(todo) \union overrun'
                                \/ Low + 1 <= from
                                \/ cursor # None /\ Low + 1 <= cursor
<1> DEFINE full == Append(ring, seq + 1)
<1>1. /\ seq \in Nat /\ MaxLines \in Nat /\ Len(ring) \in Nat /\ Low \in Nat /\ seq = Low + Len(ring)
      /\ RingSize \in Nat \ {0} /\ Len(ring) <= RingSize /\ (Low = 0 \/ Len(ring) = RingSize)
      /\ from \in Nat /\ (cursor # None => cursor \in Nat)
  BY RingIs, TelemetryAssumption DEF IInv, TypeOK
<1>2. /\ \A i \in 1..Len(ring) : ring[i] = Low + i
      /\ \A n : n \in ToSet(ring) <=> n \in (Low + 1)..seq
  BY RingIs DEF IInv
<1>3. ring \in Seq(Lines) /\ seq + 1 \in Lines
  BY <1>1 DEF IInv, TypeOK, Lines
<1>4. /\ full \in Seq(Lines) /\ full # <<>> /\ Len(full) = Len(ring) + 1
      /\ \A i \in 1..Len(ring) : full[i] = ring[i]
      /\ full[Len(ring) + 1] = seq + 1
  BY ONLY <1>3, AppendProperties DEF full
<1>5. ASSUME NEW i \in 1..Len(full) PROVE full[i] = Low + i
  <2>1. CASE i \in 1..Len(ring)
    BY <1>2, <1>4, <2>1
  <2>2. CASE i = Len(ring) + 1
    BY ONLY <1>1, <1>4, <2>2
  <2>3. i \in 1..Len(ring) \/ i = Len(ring) + 1
    BY ONLY <1>1, <1>4, i \in 1..Len(full)
  <2> QED BY <2>1, <2>2, <2>3
<1>6. /\ seq' = seq + 1 /\ ring' = IF Len(full) > RingSize THEN Tail(full) ELSE full
      /\ overrun' = overrun \union
             {n \in ToSet(ring) \ (ToSet(ring') \union ToSet(todo)) :
                 n > from /\ (cursor = None \/ n > cursor)}
  BY DEF Log
<1> HIDE DEF full
<1>7. overrun \subseteq overrun' /\ overrun' \subseteq Lines
  <2>1. overrun \subseteq Lines
    BY DEF IInv, TypeOK
  <2>2. ToSet(ring) \subseteq Lines
    BY <1>1, <1>2, seq + 1 <= MaxLines DEF Lines
  <2> QED BY <1>6, <2>1, <2>2
<1>8. CASE Len(full) > RingSize
  <2>1. /\ ring' \in Seq(Lines) /\ Len(ring') = Len(ring)
        /\ \A i \in 1..Len(ring) : ring'[i] = full[i + 1]
    BY <1>1, <1>4, <1>6, <1>8, HeadTailProperties
  <2>2. Len(ring) = RingSize /\ Low' = Low + 1
    BY <1>1, <1>4, <1>6, <1>8, <2>1 DEF Low
  <2>3. \A i \in 1..Len(ring') : ring'[i] = Low' + i
    BY <1>1, <1>4, <1>5, <2>1, <2>2
  <2>4. RingInv'
    <3>1. Len(ring') <= seq' /\ Len(ring') = RingSize
      BY <1>1, <1>6, <2>1, <2>2
    <3> QED BY <2>3, <3>1 DEF RingInv
  <2>5. Low + 1 \in ToSet(ring) /\ Low + 1 \notin ToSet(ring')
    <3>1. Low + 1 \in (Low + 1)..seq
      BY <1>1, <2>2
    <3>2. DOMAIN ring' = 1..Len(ring')
      BY <2>1, LenProperties
    <3>3. \A i \in 1..Len(ring') : ring'[i] # Low + 1
      BY <1>1, <2>1, <2>2, <2>3
    <3> QED BY <1>2, <3>1, <3>2, <3>3 DEF ToSet
  <2>6. \/ Low + 1 \in ToSet(todo) \union overrun'
        \/ Low + 1 <= from
        \/ cursor # None /\ Low + 1 <= cursor
    <3>1. Low + 1 > from \/ Low + 1 <= from
      BY <1>1
    <3>2. cursor # None => Low + 1 > cursor \/ Low + 1 <= cursor
      BY <1>1
    <3> QED BY <1>6, <2>5, <3>1, <3>2
  <2> QED BY <1>1, <1>6, <1>7, <2>1, <2>2, <2>4, <2>6
<1>9. CASE ~(Len(full) > RingSize)
  <2>1. ring' = full /\ Len(ring') = Len(ring) + 1
    BY <1>4, <1>6, <1>9
  <2>2. Low' = Low /\ Len(ring') <= RingSize /\ Low = 0
    BY <1>1, <1>4, <1>6, <1>9, <2>1 DEF Low
  <2>3. RingInv'
    <3>1. Len(ring') <= seq' /\ Len(ring') = seq'
      BY <1>1, <1>6, <2>1, <2>2
    <3>2. \A i \in 1..Len(ring') : ring'[i] = Low' + i
      BY <1>5, <2>1, <2>2
    <3> QED BY <3>1, <3>2 DEF RingInv
  <2> QED BY <1>4, <1>6, <1>7, <2>1, <2>2, <2>3
<1> QED BY <1>8, <1>9

LEMMA LogStep == ASSUME IInv, LogOnTheWay \/ LogFreely \/ LogLost PROVE IInv'
<1>1. /\ Log
      /\ UNCHANGED <<reader, cpc, why, misses, got, last, tpc, todo, draft, due, cursor, wire, from, vm, locked, lease>>
  BY DEF LogOnTheWay, LogFreely, LogLost, leasevars, clientvars, servevars
<1>2. /\ seq \in Nat /\ MaxLines \in Nat /\ BoundInv /\ heart \in {"beating", "marked", "over"}
      /\ work \in WorkStates /\ Low \in Nat
  BY RingIs DEF IInv, TypeOK
<1>3. \/ UNCHANGED <<work, heart>> /\ seq + 3 < MaxLines
      \/ work \in {"published", "phased"} /\ work' = "working" /\ heart' = heart
      \/ work = "recorded" /\ work' = "settled" /\ heart' = heart
      \/ heart = "marked" /\ heart' = "over" /\ work' = work
  <2>1. seq < MaxLines - 3 <=> seq + 3 < MaxLines
    BY <1>2
  <2> QED BY <2>1 DEF LogOnTheWay, LogFreely, LogLost, MayLog, Reserved, leasevars
<1>4. seq + 1 <= MaxLines
  BY <1>2, <1>3 DEF BoundInv, Owed
<1>5. /\ seq' = seq + 1 /\ ring' \in Seq(Lines) /\ Len(ring') <= RingSize
      /\ RingInv' /\ overrun \subseteq overrun' /\ overrun' \subseteq Lines
      /\ Low' # Low => /\ Low' = Low + 1
                        /\ \/ Low + 1 \in ToSet(todo) \union overrun'
                           \/ Low + 1 <= from
                           \/ cursor # None /\ Low + 1 <= cursor
  BY <1>1, <1>4, LogRing
<1>6. BoundInv'
  <2> DEFINE rest(w, h) == IF h = "over" /\ w \notin {"boot", "reset"} THEN 0 ELSE 1
  <2>1. seq + Owed(work) + rest(work, heart) <= MaxLines
    BY <1>2 DEF BoundInv
  <2>2. seq + 1 + Owed(work') + rest(work', heart') <= MaxLines
    <3>1. CASE UNCHANGED <<work, heart>> /\ seq + 3 < MaxLines
      <4>1. Owed(work) \in 0..2 /\ rest(work, heart) \in 0..1
        BY DEF Owed
      <4>2. work' = work /\ heart' = heart /\ seq + 3 < MaxLines
        BY <3>1
      <4> HIDE DEF rest
      <4>3. seq + 1 + Owed(work) + rest(work, heart) <= MaxLines
        BY ONLY <1>2, <4>1, <4>2
      <4> QED BY <4>2, <4>3
    <3>2. CASE work \in {"published", "phased"} /\ work' = "working" /\ heart' = heart
      BY <1>2, <2>1, <3>2 DEF Owed
    <3>3. CASE work = "recorded" /\ work' = "settled" /\ heart' = heart
      BY <1>2, <2>1, <3>3 DEF Owed
    <3>4. CASE heart = "marked" /\ heart' = "over" /\ work' = work
      <4>1. Owed(work) \in 0..2 /\ rest(work, heart) = 1
        BY <3>4 DEF Owed
      <4>2. work \notin {"boot", "reset"}
        BY <3>4, <1>2 DEF BoundInv
      <4> QED BY <1>2, <2>1, <3>4, <4>1, <4>2
    <3> QED BY <1>3, <3>1, <3>2, <3>3, <3>4
  <2>3. work' \in {"boot", "reset"} => heart' = "over"
    BY <1>2, <1>3 DEF BoundInv
  <2> QED BY <1>5, <2>2, <2>3 DEF BoundInv
<1>7. TypeOK'
  <2>1. work' \in WorkStates /\ heart' \in {"beating", "marked", "over"}
    BY <1>2, <1>3 DEF WorkStates
  <2>2. seq' \in 0..MaxLines
    BY <1>2, <1>4, <1>5
  <2> QED BY <1>1, <1>5, <2>1, <2>2 DEF IInv, TypeOK
<1>8. WatchInv' /\ FollowInv' /\ (cpc' = "ended" => wire' = <<>>)
  BY <1>1 DEF IInv, WatchInv, FollowInv
<1>9. OrderInv'
  <2>1. cursor # None => cursor \in Nat
    BY DEF IInv, TypeOK
  <2>2. cursor # None => cursor <= seq'
    BY <1>2, <1>5, <2>1 DEF IInv, OrderInv
  <2>3. ASSUME todo # <<>>
        PROVE  /\ todo[Len(todo)] <= seq' /\ (todo[1] <= cursor + 1 \/ todo[1] <= Low' + 1)
    <3>1. /\ todo[Len(todo)] <= seq /\ cursor # None
          /\ (todo[1] <= cursor + 1 \/ todo[1] <= Low + 1)
      BY <2>3 DEF IInv, OrderInv
    <3>2. todo[Len(todo)] \in Nat /\ todo[1] \in Nat
      <4>1. todo \in Seq(Lines) /\ Len(todo) \in Nat \ {0}
        BY <2>3, EmptySeq DEF IInv, TypeOK
      <4>2. todo[Len(todo)] \in Lines /\ todo[1] \in Lines
        BY <4>1, ElementOfSeq
      <4> QED BY <1>2, <4>2 DEF Lines
    <3>3. Low' \in Nat /\ Low <= Low'
      BY <1>2, <1>5
    <3>4. todo[Len(todo)] <= seq'
      BY <1>2, <1>5, <3>1, <3>2
    <3>5. todo[1] <= Low + 1 => todo[1] <= Low' + 1
      BY <1>2, <3>2, <3>3
    <3> QED BY <3>1, <3>4, <3>5
  <2> QED BY <1>1, <2>2, <2>3 DEF IInv, OrderInv
<1>10. CoverInv'
  <2>1. AheadOfAll' = AheadOfAll
    BY <1>1 DEF AheadOfAll
  <2>2. ASSUME cpc # "ended", NEW n \in (from + 1)..Low', cursor = None \/ n > cursor
        PROVE  n \in ToSet(todo) \union overrun'
    <3>1. from \in Nat /\ (cursor # None => cursor \in Nat)
      BY DEF IInv, TypeOK
    <3>2. CASE n <= Low
      <4>1. n \in (from + 1)..Low
        BY <1>2, <1>5, <2>2, <3>1, <3>2
      <4> QED BY <1>5, <2>2, <4>1 DEF IInv, CoverInv
    <3>3. CASE ~(n <= Low)
      <4>1. Low' = Low + 1 /\ n = Low + 1
        BY <1>2, <1>5, <2>2, <3>1, <3>3
      <4>2. ~(Low + 1 <= from) /\ ~(cursor # None /\ Low + 1 <= cursor)
        BY <1>2, <2>2, <3>1, <4>1
      <4>3. Low' # Low
        BY <1>2, <4>1
      <4> QED BY <1>5, <4>1, <4>2, <4>3
    <3> QED BY <3>2, <3>3
  <2>3. ASSUME cpc # "ended", cursor # None, NEW n \in (from + 1)..cursor
        PROVE  n \in AheadOfAll \union overrun'
    BY <1>5, <2>3 DEF IInv, CoverInv
  <2> QED BY <1>1, <2>1, <2>2, <2>3 DEF CoverInv
<1>11. SnapInv'
  <2>1. seq' \in Nat /\ seq <= seq'
    BY <1>2, <1>5
  <2> QED BY <1>1, <1>5, <2>1, SnapKept
<1>12. DoneReaderHasTheEnd'
  BY <1>1, <1>5, EndKept DEF IInv
<1> QED BY <1>5, <1>6, <1>7, <1>8, <1>9, <1>10, <1>11, <1>12 DEF IInv

-----------------------------------------------------------------------------
(* The thread that serves a stream, or answers a poll. *)

LEMMA Numbers ==
    ASSUME IInv
    PROVE  /\ seq \in Nat /\ MaxLines \in Nat /\ seq <= MaxLines /\ Low \in Nat /\ Low <= seq
           /\ from \in Nat /\ TailSize \in Nat \ {0} /\ TailSize <= RingSize /\ RingSize \in Nat
           /\ (cursor # None => cursor \in Nat /\ cursor <= seq)
<1>1. seq \in Nat /\ MaxLines \in Nat /\ seq <= MaxLines /\ Low \in Nat /\ Low <= seq /\ RingSize \in Nat
  BY RingIs DEF IInv
<1>2. from \in Nat /\ (cursor # None => cursor \in Nat /\ cursor <= seq)
  BY DEF IInv, TypeOK, OrderInv
<1>3. TailSize \in Nat \ {0} /\ TailSize <= RingSize
  BY TelemetryAssumption
<1> QED BY <1>1, <1>2, <1>3

\* What is ahead of the cursor's next line does not reach beyond the cursor.
LEMMA AheadIs ==
    ASSUME IInv
    PROVE  /\ \A m \in AheadOfAll : m \in Nat /\ cursor # None /\ m <= cursor
           /\ ToSet(got) \subseteq AheadOfAll
<1>1. DOMAIN got = 1..Len(got) /\ \A i \in 1..Len(got) : got[i] \in Lines
  BY LenProperties, ElementOfSeq DEF IInv, TypeOK
<1>2. Len(wire) \in Nat /\ \A k \in 1..Len(wire) : wire[k] \in Frames
  BY LenProperties, ElementOfSeq DEF IInv, TypeOK
<1>3. Lines \subseteq Nat
  BY TelemetryAssumption DEF Lines
<1>4. ASSUME NEW m \in ToSet(got) PROVE m \in Nat /\ cursor # None /\ m <= cursor
  BY <1>1, <1>3 DEF ToSet, IInv, OrderInv
<1>5. ASSUME NEW k \in 1..(Len(wire) + 1 - 1), wire[k].kind = "line"
      PROVE  wire[k].n \in Nat /\ cursor # None /\ wire[k].n <= cursor
  <2>1. k \in 1..Len(wire)
    BY <1>2, <1>5
  <2>2. wire[k].n \in Lines
    BY <1>2, <1>5, <2>1 DEF Frames
  <2> QED BY <1>3, <1>5, <2>1, <2>2 DEF IInv, OrderInv
<1> QED BY <1>4, <1>5 DEF AheadOfAll, Ahead

LEMMA RangeIs == ASSUME NEW a \in Nat, NEW b \in Nat, NEW n \in (a + 1)..b PROVE n \in Nat /\ n > a /\ n <= b
OBVIOUS

LEMMA EmptyRange == ASSUME NEW a \in Nat, NEW b \in Nat, b <= a PROVE (a + 1)..b = {}
OBVIOUS

\* A stream that is not yet served has nothing to lose.
LEMMA OpeningStep == ASSUME IInv, CaptureCursor \/ SendHeaders PROVE IInv'
<1>1. /\ reader = "watch" /\ todo = <<>> /\ wire = <<>> /\ got = <<>> /\ tpc \in {"accepted", "opened"}
      /\ cpc # "ended" => from = MaxLines
  BY DEF IInv, TypeOK, Readers, FollowInv, WatchInv, CaptureCursor, SendHeaders
<1>2. UNCHANGED <<vm, seq, ring, locked, work, heart, lease, reader, why, misses, got, last, todo, draft, due, wire,
                  overrun>>
  BY DEF CaptureCursor, SendHeaders, inside, jobvars, leasevars, clientvars, serving, ghosts
<1>3. \/ tpc = "accepted" /\ cursor' = seq /\ tpc' = "opened" /\ cpc' = cpc /\ from' = from
      \/ tpc = "opened" /\ cpc = "ended" /\ tpc' = "over" /\ cpc' = cpc /\ from' = from /\ cursor' = cursor
      \/ tpc = "opened" /\ cpc # "ended" /\ tpc' = "loop" /\ cpc' = "reading" /\ from' = seq /\ cursor' = cursor
  BY DEF CaptureCursor, SendHeaders, Gone, clientvars, ghosts
<1>4. cursor' # None /\ cursor' \in Nat /\ cursor' <= seq
  <2>1. seq # None
    BY Numbers, TelemetryAssumption
  <2>2. tpc = "opened" => cursor # None
    BY <1>1 DEF IInv, WatchInv
  <2> QED BY <1>3, <2>1, <2>2, Numbers
<1>5. TypeOK'
  <2>1. cursor' \in 0..MaxLines \union {None} /\ from' \in 0..MaxLines
    BY <1>3, <1>4, Numbers DEF IInv, TypeOK
  <2>2. tpc' \in ThreadStates /\ cpc' \in ReaderStates
    BY <1>3 DEF IInv, TypeOK, ThreadStates, ReaderStates
  <2>3. (why' = "none") = (cpc' # "ended")
    BY <1>2, <1>3 DEF IInv, TypeOK
  <2> QED BY <1>2, <2>1, <2>2, <2>3 DEF IInv, TypeOK
<1>6. RingInv' /\ BoundInv' /\ (cpc' = "ended" => wire' = <<>>)
  BY <1>1, <1>2 DEF IInv, RingInv, BoundInv, Low
<1>7. WatchInv' /\ FollowInv'
  BY <1>1, <1>2, <1>3, <1>4 DEF IInv, WatchInv, FollowInv
<1>8. OrderInv'
  BY <1>1, <1>2, <1>4, EmptySeq DEF OrderInv
<1>9. CoverInv'
  <2>1. ASSUME cpc' # "ended" PROVE from' >= cursor' /\ from' >= Low
    BY <1>1, <1>3, <1>4, <2>1, Numbers
  <2>2. Low' = Low /\ from' \in Nat
    BY <1>2, <1>3, Numbers DEF Low
  <2>3. ASSUME cpc' # "ended" PROVE (from' + 1)..cursor' = {} /\ (from' + 1)..Low' = {}
    <3>1. from' \in Nat /\ cursor' \in Nat /\ Low \in Nat /\ from' >= cursor' /\ from' >= Low /\ Low' = Low
      BY <1>4, <2>1, <2>2, <2>3, Numbers
    <3> QED BY ONLY <3>1, EmptyRange
  <2> QED BY <2>3 DEF CoverInv
<1>10. SnapInv'
  BY <1>1, <1>2, <1>3 DEF SnapInv
<1>11. DoneReaderHasTheEnd'
  BY <1>2, <1>3 DEF IInv, TypeOK, DoneReaderHasTheEnd
<1> QED BY <1>5, <1>6, <1>7, <1>8, <1>9, <1>10, <1>11 DEF IInv

\* The thread moves on, with nothing new for the reader.
LEMMA PassStep ==
    ASSUME IInv, StreamExpires \/ CheckClient \/ Wake \/ FinishSnapshot \/ (Loop /\ ~due)
    PROVE  IInv'
<1>1. /\ UNCHANGED <<vm, seq, ring, work, heart, lease, reader, cpc, why, misses, got, last, todo, due, wire, cursor,
                     from, overrun>>
      /\ \/ tpc \in {"loop", "write", "sleep"} /\ tpc' \in {"over", "sleep", "loop", "since"} /\ UNCHANGED <<locked, draft>>
         \/ tpc = "snap" /\ tpc' = "send" /\ locked' = FALSE /\ draft' = [draft EXCEPT !.error = lease.error]
      /\ todo = <<>> \/ tpc # "write"
  BY DEF StreamExpires, CheckClient, Wake, FinishSnapshot, Loop, inside, jobvars, leasevars, clientvars, serving, ghosts
<1>2. draft' \in Snapshots /\ draft'.seq = draft.seq /\ draft'.lines = draft.lines
  <2>1. draft \in Snapshots /\ lease.error \in BOOLEAN
    BY DEF IInv, TypeOK
  <2> QED BY ONLY <1>1, <2>1 DEF Snapshots
<1>3. todo = <<>>
  BY <1>1 DEF IInv, WatchInv, FollowInv, TypeOK, Readers
<1>4. TypeOK'
  <2>1. tpc' \in ThreadStates /\ locked' \in BOOLEAN
    BY <1>1 DEF IInv, TypeOK, ThreadStates
  <2> QED BY <1>1, <1>2, <2>1 DEF IInv, TypeOK
<1>5. RingInv' /\ BoundInv' /\ (cpc' = "ended" => wire' = <<>>)
  BY <1>1 DEF IInv, RingInv, BoundInv, Low
<1>6. WatchInv' /\ FollowInv'
  BY <1>1, <1>3 DEF IInv, WatchInv, FollowInv
<1>7. OrderInv' /\ CoverInv' /\ DoneReaderHasTheEnd'
  BY <1>1, OrderKept, CoverKept, EndKept DEF IInv
<1>8. SnapInv'
  BY <1>1, <1>2, SnapKept, Numbers
<1> QED BY <1>4, <1>5, <1>6, <1>7, <1>8 DEF IInv

\* The newest lines a snapshot without a cursor takes.
LEMMA TailIs ==
    ASSUME IInv
    PROVE  \E c \in Nat :
              /\ SnapshotLines(None) = Newest(c) /\ c <= Len(ring) /\ c <= TailSize
              /\ c = TailSize \/ (seq = c /\ Low = 0)
<1> DEFINE c == IF Len(ring) > TailSize THEN TailSize ELSE Len(ring)
<1>1. /\ Len(ring) \in Nat /\ seq = Low + Len(ring) /\ (Low = 0 \/ Len(ring) = RingSize) /\ Low \in Nat
      /\ TailSize \in Nat /\ TailSize <= RingSize /\ RingSize \in Nat
  BY RingIs, Numbers DEF IInv
<1>2. c \in Nat /\ c <= Len(ring) /\ c <= TailSize
  BY ONLY <1>1
<1>3. c = TailSize \/ (seq = c /\ Low = 0)
  <2>1. CASE Len(ring) >= TailSize
    BY ONLY <1>1, <2>1
  <2>2. CASE ~(Len(ring) >= TailSize)
    <3>1. Low = 0 /\ c = Len(ring)
      BY ONLY <1>1, <2>2
    <3> QED BY ONLY <1>1, <3>1
  <2> QED BY <2>1, <2>2
<1> QED BY <1>2, <1>3 DEF SnapshotLines

LEMMA LoopStep == ASSUME IInv, Loop, due PROVE IInv'
<1>1. /\ UNCHANGED <<vm, seq, ring, work, heart, lease, reader, cpc, why, misses, got, last, todo, due, wire, cursor,
                     from, overrun>>
      /\ tpc = "loop" /\ tpc' = "snap" /\ locked' = TRUE
      /\ draft' = [seq |-> seq, lines |-> SnapshotLines(None),
                   done |-> lease.done, lost |-> lease.lost, error |-> FALSE]
  BY DEF Loop, inside, jobvars, leasevars, clientvars, serving, ghosts
<1>2. /\ reader = "watch" /\ cursor # None /\ todo = <<>>
  BY <1>1 DEF IInv, WatchInv, FollowInv, TypeOK, Readers
<1>3. PICK c \in Nat : /\ SnapshotLines(None) = Newest(c) /\ c <= Len(ring) /\ c <= TailSize
                       /\ c = TailSize \/ (seq = c /\ Low = 0)
  BY TailIs
<1>4. /\ Newest(c) \in Seq(Lines) /\ \A n : n \in ToSet(Newest(c)) <=> n \in (seq - c + 1)..seq
  BY <1>3, NewestIs DEF IInv
<1>5. /\ draft' \in Snapshots /\ draft'.seq = seq /\ draft'.lines = Newest(c)
  <2>1. seq \in 0..MaxLines /\ lease.done \in BOOLEAN /\ lease.lost \in BOOLEAN
    BY DEF IInv, TypeOK
  <2> QED BY <1>1, <1>3, <1>4, <2>1 DEF Snapshots
<1>6. TypeOK'
  BY <1>1, <1>5 DEF IInv, TypeOK, ThreadStates
<1>7. RingInv' /\ BoundInv' /\ (cpc' = "ended" => wire' = <<>>)
  BY <1>1 DEF IInv, RingInv, BoundInv, Low
<1>8. WatchInv' /\ FollowInv'
  BY <1>1, <1>2 DEF IInv, WatchInv, FollowInv
<1>9. OrderInv' /\ CoverInv' /\ DoneReaderHasTheEnd'
  BY <1>1, OrderKept, CoverKept, EndKept DEF IInv
<1>10. SnapInv'
  <2>1. ASSUME cpc # "ended", NEW n \in (from + 1)..seq
        PROVE  \/ n \in AheadOfAll \union ToSet(Newest(c)) \union overrun
               \/ n <= seq - TailSize /\ \A m \in AheadOfAll : n > m
    <3>1. CASE n <= cursor
      <4>1. n \in (from + 1)..cursor
        BY <1>2, <2>1, <3>1, Numbers
      <4> QED BY <1>2, <2>1, <4>1 DEF IInv, CoverInv
    <3>2. CASE ~(n <= cursor)
      <4>1. n > seq - c \/ n <= seq - TailSize
        BY <1>3, <2>1, Numbers
      <4>2. n > seq - c => n \in ToSet(Newest(c))
        BY <1>3, <1>4, <2>1, Numbers
      <4>3. ASSUME NEW m \in AheadOfAll PROVE m \in Nat /\ m <= cursor
        BY <1>2, AheadIs
      <4>4. \A m \in AheadOfAll : n > m
        BY <1>2, <2>1, <3>2, <4>3, Numbers
      <4> QED BY <4>1, <4>2, <4>4
    <3> QED BY <3>1, <3>2
  <2>2. AheadOfAll' = AheadOfAll
    BY <1>1 DEF AheadOfAll
  <2>3. cpc # "ended" => Accounts(draft', AheadOfAll, reader, cursor, from, overrun)
    BY <1>2, <1>5, <2>1 DEF Accounts, Completes
  <2>4. \A k \in 1..Len(wire) : wire[k].kind = "snap" /\ cpc # "ended" =>
            /\ wire[k].snap.seq <= seq
            /\ Accounts(wire[k].snap, Ahead(got, wire, k), reader, cursor, from, overrun)
    BY DEF IInv, SnapInv
  <2> QED BY <1>1, <1>5, <2>2, <2>3, <2>4, Numbers DEF SnapInv
<1> QED BY <1>6, <1>7, <1>8, <1>9, <1>10 DEF IInv

LEMMA AheadMember ==
    ASSUME NEW g, NEW w, NEW k, NEW n
    PROVE  n \in Ahead(g, w, k) <=>
               n \in ToSet(g) \/ \E l \in 1..(k - 1) : w[l].kind = "line" /\ n = w[l].n
BY DEF Ahead

\* A frame that is put on the wire comes last.
LEMMA AheadAppend ==
    ASSUME NEW g, NEW w \in Seq(Frames), NEW f \in Frames
    PROVE  /\ \A k \in 1..(Len(w) + 1) : Ahead(g, Append(w, f), k) = Ahead(g, w, k)
           /\ Ahead(g, Append(w, f), Len(w) + 2) =
                  Ahead(g, w, Len(w) + 1) \union (IF f.kind = "line" THEN {f.n} ELSE {})
<1> DEFINE a == Append(w, f)
<1>1. Len(w) \in Nat /\ (\A l \in 1..Len(w) : a[l] = w[l]) /\ a[Len(w) + 1] = f
  BY AppendProperties, LenProperties
<1> HIDE DEF a
<1>2. ASSUME NEW k \in 1..(Len(w) + 1) PROVE Ahead(g, a, k) = Ahead(g, w, k)
  <2>1. \A l \in 1..(k - 1) : l \in 1..Len(w)
    BY ONLY <1>1, k \in 1..(Len(w) + 1)
  <2>2. \A l \in 1..(k - 1) : a[l] = w[l]
    BY <1>1, <2>1
  <2> QED BY <2>2 DEF Ahead
<1>3. Ahead(g, a, Len(w) + 2) = Ahead(g, w, Len(w) + 1) \union (IF f.kind = "line" THEN {f.n} ELSE {})
  <2>1. 1..(Len(w) + 2 - 1) = 1..(Len(w) + 1 - 1) \union {Len(w) + 1}
    BY ONLY <1>1
  <2>2. \A l \in 1..(Len(w) + 1 - 1) : a[l] = w[l]
    <3>1. Len(w) + 1 - 1 = Len(w)
      BY ONLY <1>1
    <3> QED BY <1>1, <3>1
  <2> QED BY <1>1, <2>1, <2>2 DEF Ahead
<1> QED BY <1>2, <1>3 DEF a

\* A frame that is taken off the wire came first.
LEMMA AheadTail ==
    ASSUME NEW g \in Seq(Lines), NEW w \in Seq(Frames), w # <<>>,
           NEW h, h = IF w[1].kind = "line" THEN Append(g, w[1].n) ELSE g, NEW k \in 1..Len(w)
    PROVE  Ahead(h, Tail(w), k) = Ahead(g, w, k + 1)
<1>1. /\ Len(w) \in Nat \ {0} /\ Len(Tail(w)) = Len(w) - 1
      /\ \A l \in 1..Len(Tail(w)) : Tail(w)[l] = w[l + 1]
  BY HeadTailProperties, EmptySeq
<1>2. \A l \in 1..(k - 1) : Tail(w)[l] = w[l + 1]
  <2>1. \A l \in 1..(k - 1) : l \in 1..Len(Tail(w))
    BY ONLY <1>1, k \in 1..Len(w)
  <2> QED BY <1>1, <2>1
<1>3. w[1] \in Frames
  BY <1>1, ElementOfSeq
<1>4. ASSUME NEW n PROVE n \in ToSet(h) <=> n \in ToSet(g) \/ (w[1].kind = "line" /\ n = w[1].n)
  <2>1. CASE w[1].kind = "line"
    <3>1. w[1].n \in Lines
      BY <1>3, <2>1 DEF Frames
    <3>2. /\ h \in Seq(Lines) /\ Len(h) = Len(g) + 1 /\ h[Len(g) + 1] = w[1].n
          /\ \A i \in 1..Len(g) : h[i] = g[i]
      BY <2>1, <3>1, AppendProperties
    <3>3. DOMAIN g = 1..Len(g) /\ DOMAIN h = 1..Len(h) /\ Len(g) \in Nat
      BY <3>2, LenProperties
    <3>4. 1..Len(h) = 1..Len(g) \union {Len(g) + 1}
      BY ONLY <3>2, <3>3
    <3> QED BY <2>1, <3>2, <3>3, <3>4 DEF ToSet
  <2>2. CASE w[1].kind # "line"
    BY <2>2
  <2> QED BY <2>1, <2>2
<1>5. ASSUME NEW n
      PROVE  (\E l \in 1..(k + 1 - 1) : w[l].kind = "line" /\ n = w[l].n) <=>
                 \/ w[1].kind = "line" /\ n = w[1].n
                 \/ \E l \in 1..(k - 1) : Tail(w)[l].kind = "line" /\ n = Tail(w)[l].n
  <2>1. k \in Nat /\ k >= 1
    BY ONLY <1>1, k \in 1..Len(w)
  <2>2. ASSUME NEW l \in 1..(k + 1 - 1), w[l].kind = "line", n = w[l].n
        PROVE  \/ w[1].kind = "line" /\ n = w[1].n
               \/ \E m \in 1..(k - 1) : Tail(w)[m].kind = "line" /\ n = Tail(w)[m].n
    <3>1. CASE l = 1
      BY <2>2, <3>1
    <3>2. CASE l # 1
      <4>1. l - 1 \in 1..(k - 1) /\ (l - 1) + 1 = l
        BY ONLY <2>1, <3>2, l \in 1..(k + 1 - 1)
      <4>2. Tail(w)[l - 1] = w[l]
        BY <1>2, <4>1
      <4> QED BY <2>2, <4>1, <4>2
    <3> QED BY <3>1, <3>2
  <2>3. 1 \in 1..(k + 1 - 1)
    BY ONLY <2>1
  <2>4. ASSUME NEW l \in 1..(k - 1), Tail(w)[l].kind = "line", n = Tail(w)[l].n
        PROVE  \E m \in 1..(k + 1 - 1) : w[m].kind = "line" /\ n = w[m].n
    <3>1. l + 1 \in 1..(k + 1 - 1)
      BY ONLY <2>1, l \in 1..(k - 1)
    <3> QED BY <1>2, <2>4, <3>1
  <2> QED BY <2>2, <2>3, <2>4
<1>6. ASSUME NEW n PROVE n \in Ahead(h, Tail(w), k) <=> n \in Ahead(g, w, k + 1)
  <2>1. n \in Ahead(h, Tail(w), k) <=>
            n \in ToSet(h) \/ \E l \in 1..(k - 1) : Tail(w)[l].kind = "line" /\ n = Tail(w)[l].n
    BY DEF Ahead
  <2>2. n \in Ahead(g, w, k + 1) <=>
            n \in ToSet(g) \/ \E l \in 1..(k + 1 - 1) : w[l].kind = "line" /\ n = w[l].n
    BY ONLY AheadMember
  <2> QED BY <1>4, <1>5, <2>1, <2>2, Zenon
<1> QED BY <1>6

LEMMA SendStep == ASSUME IInv, SendSnapshot PROVE IInv'
<1>1. /\ UNCHANGED <<vm, seq, ring, locked, work, heart, lease, reader, cpc, why, misses, got, last, todo, cursor,
                     from, overrun>>
      /\ tpc = "send" /\ draft' = NoSnapshot /\ Len(wire) < WireCap
      /\ wire' = IF cpc = "ended" THEN wire ELSE Append(wire, [kind |-> "snap", snap |-> draft])
      /\ \/ reader = "follow" /\ tpc' = "none" /\ due' = due
         \/ reader # "follow" /\ cpc = "ended" /\ tpc' = "over" /\ due' = due
         \/ reader # "follow" /\ cpc # "ended" /\ tpc' = "since" /\ due' = FALSE
  BY DEF SendSnapshot, Gone, inside, jobvars, leasevars, clientvars, ghosts
<1> DEFINE frame == [kind |-> "snap", snap |-> draft]
<1>2. wire \in Seq(Frames) /\ frame \in Frames /\ Len(wire) \in Nat /\ frame.kind = "snap" /\ frame.snap = draft
  BY LenProperties DEF IInv, TypeOK, Frames
<1>3. wire' = IF cpc = "ended" THEN wire ELSE Append(wire, frame)
  BY <1>1
<1> HIDE DEF frame
<1>4. /\ Append(wire, frame) \in Seq(Frames) /\ Len(Append(wire, frame)) = Len(wire) + 1
      /\ \A k \in 1..Len(wire) : Append(wire, frame)[k] = wire[k]
      /\ Append(wire, frame)[Len(wire) + 1] = frame
  BY <1>2, AppendProperties
<1>5. todo = <<>> /\ (cpc = "ended" => wire = <<>>) /\ (reader = "follow" => wire = <<>> /\ cpc = "wait")
  BY <1>1 DEF IInv, WatchInv, FollowInv, TypeOK, Readers
<1>6. TypeOK'
  <2>1. wire' \in Seq(Frames) /\ Len(wire') <= WireCap
    BY <1>1, <1>2, <1>3, <1>4, TelemetryAssumption DEF IInv, TypeOK
  <2>2. draft' \in Snapshots
    BY <1>1, TelemetryAssumption, EmptySeq DEF NoSnapshot, Snapshots
  <2>3. due' \in BOOLEAN
    BY <1>1 DEF IInv, TypeOK
  <2>4. tpc' \in ThreadStates
    BY <1>1 DEF ThreadStates
  <2> QED BY <1>1, <2>1, <2>2, <2>3, <2>4 DEF IInv, TypeOK
<1>7. RingInv' /\ BoundInv' /\ (cpc' = "ended" => wire' = <<>>)
  BY <1>1, <1>5 DEF IInv, RingInv, BoundInv, Low
<1>8. WatchInv' /\ FollowInv'
  <2>1. reader = "follow" => Len(wire') = 1 /\ wire'[1].kind = "snap"
    BY <1>2, <1>3, <1>4, <1>5, EmptySeq
  <2> QED BY <1>1, <1>5, <2>1 DEF IInv, WatchInv, FollowInv
<1>9. CASE cpc = "ended"
  <2>1. wire' = wire /\ tpc' \notin {"snap", "send"}
    BY <1>1, <1>9
  <2>2. OrderInv' /\ CoverInv' /\ DoneReaderHasTheEnd'
    BY <1>1, <2>1, OrderKept, CoverKept, EndKept DEF IInv
  <2>3. SnapInv'
    BY <1>1, <1>9 DEF SnapInv
  <2> QED BY <1>6, <1>7, <1>8, <2>2, <2>3 DEF IInv
<1>10. CASE cpc # "ended"
  <2>1. /\ wire' = Append(wire, frame) /\ Len(wire') = Len(wire) + 1
        /\ \A k \in 1..Len(wire) : wire'[k] = wire[k]
        /\ wire'[Len(wire) + 1] = frame
    BY <1>3, <1>4, <1>10
  <2>2. \A k \in 1..Len(wire') : k \in 1..Len(wire) \/ k = Len(wire) + 1
    BY <1>2, <2>1
  <2>3. \A k \in 1..(Len(wire) + 1) : Ahead(got, wire', k) = Ahead(got, wire, k)
    <3>1. \A k \in 1..(Len(wire) + 1) : Ahead(got, Append(wire, frame), k) = Ahead(got, wire, k)
      BY <1>2, AheadAppend
    <3> QED BY <2>1, <3>1
  <2>4. AheadOfAll' = AheadOfAll
    <3>1. Ahead(got, wire', Len(wire) + 2) = AheadOfAll
      <4>1. Ahead(got, Append(wire, frame), Len(wire) + 2) = Ahead(got, wire, Len(wire) + 1) \union {}
        BY <1>2, AheadAppend
      <4> QED BY <2>1, <4>1 DEF AheadOfAll
    <3>2. Len(wire') + 1 = Len(wire) + 2
      BY <1>2, <2>1
    <3> QED BY <1>1, <3>1, <3>2 DEF AheadOfAll
  <2>5. OrderInv'
    <3>1. ASSUME NEW k \in 1..Len(wire'), wire'[k].kind = "line"
          PROVE  /\ cursor # None /\ wire'[k].n <= cursor
                 /\ \A i \in 1..Len(got) : got[i] < wire'[k].n
                 /\ \A l \in 1..k-1 : wire'[l].kind = "line" => wire'[l].n < wire'[k].n
      <4>1. k \in 1..Len(wire)
        BY <1>2, <2>1, <2>2, <3>1
      <4>2. \A l \in 1..k-1 : l \in 1..Len(wire)
        BY <1>2, <4>1
      <4> QED BY <2>1, <3>1, <4>1, <4>2 DEF IInv, OrderInv
    <3> QED BY <1>1, <1>5, <3>1 DEF IInv, OrderInv
  <2>6. CoverInv'
    BY <1>1, <2>4 DEF IInv, CoverInv, Low
  <2>7. SnapInv'
    <3>1. ASSUME NEW k \in 1..Len(wire'), wire'[k].kind = "snap"
          PROVE  /\ wire'[k].snap.seq <= seq
                 /\ Accounts(wire'[k].snap, Ahead(got, wire', k), reader, cursor, from, overrun)
      <4>1. CASE k \in 1..Len(wire)
        <5>1. k \in 1..(Len(wire) + 1)
          BY <1>2, <4>1
        <5> QED BY <1>10, <2>1, <2>3, <3>1, <4>1, <5>1 DEF IInv, SnapInv
      <4>2. CASE k = Len(wire) + 1
        <5>1. Ahead(got, wire', k) = AheadOfAll
          BY <1>2, <2>3, <4>2 DEF AheadOfAll
        <5> QED BY <1>1, <1>2, <1>10, <2>1, <4>2, <5>1 DEF IInv, SnapInv
      <4> QED BY <2>2, <4>1, <4>2
    <3>2. tpc' \notin {"snap", "send"}
      BY <1>1
    <3> QED BY <1>1, <3>1, <3>2 DEF SnapInv
  <2>8. DoneReaderHasTheEnd'
    BY <1>1, EndKept DEF IInv
  <2> QED BY <1>6, <1>7, <1>8, <2>5, <2>6, <2>7, <2>8 DEF IInv
<1> QED BY <1>9, <1>10

LEMMA ReadStep == ASSUME IInv, ReadSince PROVE IInv'
<1>1. /\ UNCHANGED <<vm, seq, ring, locked, work, heart, lease, reader, cpc, why, misses, got, last, draft, due, cursor,
                     wire, from, overrun>>
      /\ tpc = "since" /\ tpc' = "write" /\ todo' = Since(cursor)
  BY DEF ReadSince, inside, jobvars, leasevars, clientvars, ghosts
<1>2. reader = "watch" /\ cursor # None /\ todo = <<>>
  BY <1>1 DEF IInv, WatchInv, FollowInv, TypeOK, Readers
<1>3. cursor \in 0..seq
  BY <1>2, Numbers
<1>4. PICK c \in Nat : /\ Since(cursor) = Newest(c) /\ c <= Len(ring)
                       /\ seq = c + (IF cursor > Low THEN cursor ELSE Low)
  BY <1>3, SinceIs DEF IInv
<1>5. todo' \in Seq(Lines) /\ Len(todo') = c /\ \A i \in 1..c : todo'[i] = seq - c + i
  BY <1>1, <1>4, NewestIs DEF IInv
<1>6. TypeOK'
  BY <1>1, <1>5 DEF IInv, TypeOK, ThreadStates
<1>7. RingInv' /\ BoundInv' /\ (cpc' = "ended" => wire' = <<>>)
  BY <1>1 DEF IInv, RingInv, BoundInv, Low
<1>8. WatchInv' /\ FollowInv'
  BY <1>1, <1>2 DEF IInv, WatchInv, FollowInv
<1>9. OrderInv'
  <2>1. ASSUME todo' # <<>>
        PROVE  /\ \A i \in 1..Len(todo') : todo'[i] = todo'[1] + i - 1
               /\ cursor < todo'[1] /\ todo'[Len(todo')] <= seq
               /\ todo'[1] <= cursor + 1 \/ todo'[1] <= Low + 1
    <3>1. c >= 1
      BY <1>5, <2>1, EmptySeq
    <3>2. todo'[1] = seq - c + 1 /\ todo'[c] = seq
      BY <1>5, <3>1, Numbers
    <3>3. \A i \in 1..c : todo'[i] = todo'[1] + i - 1
      BY <1>5, <3>2, Numbers
    <3>4. cursor < seq - c + 1 /\ (seq - c + 1 <= cursor + 1 \/ seq - c + 1 <= Low + 1)
      BY <1>3, <1>4, Numbers
    <3>5. todo'[c] <= seq
      BY <3>2, Numbers
    <3> QED BY <1>5, <3>2, <3>3, <3>4, <3>5
  <2> QED BY <1>1, <1>2, <2>1 DEF IInv, OrderInv, Low
<1>10. CoverInv'
  <2>1. ToSet(todo) = {}
    BY <1>2 DEF ToSet
  <2>2. AheadOfAll' = AheadOfAll /\ Low' = Low
    BY <1>1 DEF AheadOfAll, Low
  <2> QED BY <1>1, <2>1, <2>2 DEF IInv, CoverInv
<1>11. SnapInv'
  BY <1>1, SnapKept, Numbers
<1>12. DoneReaderHasTheEnd'
  BY <1>1, EndKept DEF IInv
<1> QED BY <1>6, <1>7, <1>8, <1>9, <1>10, <1>11, <1>12 DEF IInv

\* The batch of a stream, as numbers.
LEMMA TodoIs ==
    ASSUME IInv, todo # <<>>
    PROVE  /\ Len(todo) \in Nat \ {0} /\ todo[1] \in Nat /\ Head(todo) = todo[1] /\ cursor # None /\ cursor < todo[1]
           /\ \A i \in 1..Len(todo) : todo[i] = todo[1] + i - 1
           /\ todo[1] + Len(todo) - 1 <= seq
           /\ todo[1] <= cursor + 1 \/ todo[1] <= Low + 1
           /\ Tail(todo) \in Seq(Lines) /\ Len(Tail(todo)) = Len(todo) - 1
           /\ \A i \in 1..Len(Tail(todo)) : Tail(todo)[i] = todo[1] + i
           /\ \A n : n \in ToSet(todo) => n = todo[1] \/ (n > todo[1] /\ n \in ToSet(Tail(todo)))
<1>1. todo \in Seq(Lines) /\ Len(todo) \in Nat \ {0} /\ DOMAIN todo = 1..Len(todo)
  BY EmptySeq, LenProperties DEF IInv, TypeOK
<1>2. todo[1] \in Lines /\ todo[1] \in Nat
  BY <1>1, ElementOfSeq, TelemetryAssumption DEF Lines
<1>3. /\ \A i \in 1..Len(todo) : todo[i] = todo[1] + i - 1
      /\ cursor # None /\ cursor < todo[1] /\ todo[Len(todo)] <= seq
      /\ todo[1] <= cursor + 1 \/ todo[1] <= Low + 1
  BY DEF IInv, OrderInv
<1>4. /\ Tail(todo) \in Seq(Lines) /\ Len(Tail(todo)) = Len(todo) - 1
      /\ \A i \in 1..Len(Tail(todo)) : Tail(todo)[i] = todo[i + 1]
  BY <1>1, HeadTailProperties
<1>5. todo[1] + Len(todo) - 1 <= seq
  BY <1>1, <1>2, <1>3
<1>6. ASSUME NEW i \in 1..Len(Tail(todo)) PROVE Tail(todo)[i] = todo[1] + i
  <2>1. i + 1 \in 1..Len(todo) /\ todo[1] + (i + 1) - 1 = todo[1] + i
    BY ONLY <1>1, <1>2, <1>4, i \in 1..Len(Tail(todo))
  <2> QED BY <1>3, <1>4, <2>1
<1>7. ASSUME NEW n, n \in ToSet(todo) PROVE n = todo[1] \/ (n > todo[1] /\ n \in ToSet(Tail(todo)))
  <2>1. PICK i \in 1..Len(todo) : n = todo[i]
    BY <1>1, <1>7 DEF ToSet
  <2>2. CASE i = 1
    BY <2>1, <2>2
  <2>3. CASE i # 1
    <3>1. i - 1 \in 1..Len(Tail(todo)) /\ (i - 1) + 1 = i
      BY ONLY <1>1, <1>4, <2>3, i \in 1..Len(todo)
    <3>2. n = Tail(todo)[i - 1] /\ n = todo[1] + (i - 1)
      BY <1>4, <1>6, <2>1, <3>1
    <3>3. n > todo[1]
      BY ONLY <1>1, <1>2, <3>1, <3>2, <2>3
    <3>4. DOMAIN Tail(todo) = 1..Len(Tail(todo))
      BY <1>4, LenProperties
    <3> QED BY <3>1, <3>2, <3>3, <3>4 DEF ToSet
  <2> QED BY <2>2, <2>3
<1> QED BY <1>1, <1>2, <1>3, <1>4, <1>5, <1>6, <1>7

LEMMA WriteStep == ASSUME IInv, WriteLine PROVE IInv'
<1>1. /\ UNCHANGED <<vm, seq, ring, locked, work, heart, lease, reader, cpc, why, misses, got, last, draft, due, from,
                     overrun>>
      /\ tpc = "write" /\ todo # <<>> /\ Len(wire) < WireCap /\ cursor' = Head(todo)
  BY DEF WriteLine, inside, jobvars, leasevars, clientvars, ghosts
<1>2. /\ cpc = "ended" => tpc' = "over" /\ todo' = <<>> /\ wire' = wire
      /\ cpc # "ended" => /\ wire' = Append(wire, [kind |-> "line", n |-> Head(todo)])
                          /\ todo' = Tail(todo) /\ tpc' = tpc
  BY DEF WriteLine, Gone
<1>3. reader = "watch"
  BY <1>1 DEF IInv, FollowInv, TypeOK, Readers
<1> DEFINE h == todo[1]
           frame == [kind |-> "line", n |-> h]
<1>4. /\ Len(todo) \in Nat \ {0} /\ h \in Nat /\ cursor' = h /\ cursor # None /\ cursor \in Nat /\ cursor < h
      /\ h + Len(todo) - 1 <= seq /\ (h <= cursor + 1 \/ h <= Low + 1)
  BY <1>1, TodoIs, Numbers
<1>5. h \in Lines /\ frame \in Frames /\ frame.kind = "line" /\ frame.n = h
  <2>1. h \in Lines
    BY <1>4, Numbers DEF Lines
  <2> QED BY <2>1 DEF Frames
<1>6. cpc # "ended" => wire' = Append(wire, frame)
  BY <1>1, <1>2, TodoIs
<1>7. /\ Tail(todo) \in Seq(Lines) /\ Len(Tail(todo)) = Len(todo) - 1
      /\ \A i \in 1..Len(Tail(todo)) : Tail(todo)[i] = h + i
      /\ \A n : n \in ToSet(todo) => n = h \/ (n > h /\ n \in ToSet(Tail(todo)))
  BY <1>1, TodoIs
<1> HIDE DEF h, frame
<1>8. h <= seq /\ cursor' # None
  BY <1>4, Numbers, TelemetryAssumption
<1>9. wire \in Seq(Frames) /\ Len(wire) \in Nat
  BY LenProperties DEF IInv, TypeOK
<1>10. /\ Append(wire, frame) \in Seq(Frames) /\ Len(Append(wire, frame)) = Len(wire) + 1
       /\ \A k \in 1..Len(wire) : Append(wire, frame)[k] = wire[k]
       /\ Append(wire, frame)[Len(wire) + 1] = frame
  BY <1>5, <1>9, AppendProperties
<1>11. TypeOK'
  <2>1. wire' \in Seq(Frames) /\ Len(wire') <= WireCap
    BY <1>1, <1>2, <1>6, <1>9, <1>10, TelemetryAssumption
  <2>2. todo' \in Seq(Lines)
    BY <1>2, <1>7, EmptySeq
  <2>3. cursor' \in 0..MaxLines \union {None}
    BY <1>4, <1>8, Numbers
  <2>4. tpc' \in ThreadStates
    BY <1>1, <1>2 DEF ThreadStates
  <2> QED BY <1>1, <2>1, <2>2, <2>3, <2>4 DEF IInv, TypeOK
<1>12. RingInv' /\ BoundInv' /\ (cpc' = "ended" => wire' = <<>>)
  BY <1>1, <1>2 DEF IInv, RingInv, BoundInv, Low
<1>13. WatchInv' /\ FollowInv'
  BY <1>1, <1>2, <1>3, <1>8 DEF IInv, WatchInv, FollowInv
<1>14. /\ \A i \in 1..Len(got) : got[i] < h
       /\ \A k \in 1..Len(wire) : wire[k].kind = "line" => wire[k].n < h
  <2>1. \A i \in 1..Len(got) : got[i] \in Nat /\ got[i] <= cursor
    <3>1. \A i \in 1..Len(got) : got[i] \in Lines
      BY ElementOfSeq DEF IInv, TypeOK
    <3> QED BY <3>1, Numbers DEF Lines, IInv, OrderInv
  <2>2. \A k \in 1..Len(wire) : wire[k].kind = "line" => wire[k].n \in Nat /\ wire[k].n <= cursor
    <3>1. \A k \in 1..Len(wire) : wire[k].kind = "line" => wire[k].n \in Lines
      BY <1>9, ElementOfSeq DEF Frames
    <3> QED BY <3>1, Numbers DEF Lines, IInv, OrderInv
  <2> QED BY <1>4, <2>1, <2>2
<1>15. DoneReaderHasTheEnd'
  BY <1>1, EndKept DEF IInv
<1>16. \A i \in 1..Len(got) : cursor' # None /\ got[i] <= cursor'
  <2>1. \A i \in 1..Len(got) : got[i] \in Nat
    <3>1. \A i \in 1..Len(got) : got[i] \in Lines
      BY ElementOfSeq DEF IInv, TypeOK
    <3> QED BY <3>1, Numbers DEF Lines
  <2> QED BY <1>4, <1>8, <1>14, <2>1
<1>17. CASE cpc = "ended"
  <2>1. wire' = <<>> /\ todo' = <<>> /\ cursor' <= seq
    BY <1>1, <1>2, <1>4, <1>8, <1>17 DEF IInv
  <2>2. OrderInv'
    BY <1>1, <1>8, <1>16, <2>1, EmptySeq DEF IInv, OrderInv
  <2>3. CoverInv' /\ SnapInv'
    BY <1>1, <1>17 DEF CoverInv, SnapInv
  <2> QED BY <1>11, <1>12, <1>13, <1>15, <2>2, <2>3 DEF IInv
<1>18. CASE cpc # "ended"
  <2>1. /\ wire' = Append(wire, frame) /\ Len(wire') = Len(wire) + 1 /\ todo' = Tail(todo)
        /\ \A k \in 1..Len(wire) : wire'[k] = wire[k]
        /\ wire'[Len(wire) + 1] = frame
    BY <1>2, <1>6, <1>10, <1>18
  <2>2. \A k \in 1..Len(wire') : k \in 1..Len(wire) \/ k = Len(wire) + 1
    BY ONLY <1>9, <2>1
  <2>3. \A k \in 1..(Len(wire) + 1) : Ahead(got, wire', k) = Ahead(got, wire, k)
    <3>1. \A k \in 1..(Len(wire) + 1) : Ahead(got, Append(wire, frame), k) = Ahead(got, wire, k)
      BY <1>5, <1>9, AheadAppend
    <3> QED BY <2>1, <3>1
  <2>4. AheadOfAll' = AheadOfAll \union {h}
    <3>1. Ahead(got, Append(wire, frame), Len(wire) + 2) = Ahead(got, wire, Len(wire) + 1) \union {h}
      BY <1>5, <1>9, AheadAppend
    <3>2. Len(wire') + 1 = Len(wire) + 2
      BY ONLY <1>9, <2>1
    <3> QED BY <1>1, <2>1, <3>1, <3>2 DEF AheadOfAll
  <2>5. OrderInv'
    <3>1. ASSUME NEW k \in 1..Len(wire'), wire'[k].kind = "line"
          PROVE  /\ wire'[k].n <= cursor'
                 /\ \A i \in 1..Len(got) : got[i] < wire'[k].n
                 /\ \A l \in 1..k-1 : wire'[l].kind = "line" => wire'[l].n < wire'[k].n
      <4>1. \A l \in 1..k-1 : l \in 1..Len(wire)
        BY ONLY <1>9, <2>1, k \in 1..Len(wire')
      <4>2. CASE k \in 1..Len(wire)
        <5>1. wire'[k] = wire[k] /\ wire[k].kind = "line" /\ wire[k].n < h
          BY <1>14, <2>1, <3>1, <4>2
        <5>2. wire[k].n \in Nat
          <6>1. wire[k] \in Frames
            BY <1>9, <4>2, ElementOfSeq
          <6> QED BY <5>1, <6>1, Numbers DEF Frames, Lines
        <5>3. wire'[k].n <= cursor'
          BY <1>4, <5>1, <5>2
        <5> QED BY <2>1, <4>1, <4>2, <5>1, <5>3 DEF IInv, OrderInv
      <4>3. CASE k = Len(wire) + 1
        <5>1. wire'[k].n = h /\ h <= cursor'
          BY <1>4, <1>5, <2>1, <4>3
        <5> QED BY <1>14, <2>1, <4>1, <5>1
      <4> QED BY <2>2, <4>2, <4>3
    <3>2. ASSUME todo' # <<>>
          PROVE  /\ \A i \in 1..Len(todo') : todo'[i] = todo'[1] + i - 1
                 /\ cursor' < todo'[1] /\ todo'[Len(todo')] <= seq
                 /\ todo'[1] <= cursor' + 1
      <4>1. Len(todo') \in Nat \ {0} /\ Len(todo') = Len(todo) - 1 /\ \A i \in 1..Len(todo') : todo'[i] = h + i
        BY <1>7, <2>1, <3>2, EmptySeq
      <4>2. todo'[1] = h + 1 /\ todo'[Len(todo')] = h + Len(todo')
        BY <4>1
      <4>3. \A i \in 1..Len(todo') : todo'[i] = todo'[1] + i - 1
        BY <1>4, <4>1, <4>2
      <4> QED BY <1>4, <4>1, <4>2, <4>3, Numbers
    <3> QED BY <1>1, <1>4, <1>8, <1>16, <3>1, <3>2 DEF IInv, OrderInv
  <2>6. CoverInv'
    <3>1. ASSUME NEW n \in (from + 1)..cursor' PROVE n \in AheadOfAll' \union overrun
      <4>0. n \in Nat /\ n > from /\ n <= h
        BY <1>4, <3>1, Numbers
      <4>1. CASE n <= cursor
        <5>1. n \in (from + 1)..cursor
          BY <1>4, <4>0, <4>1, Numbers
        <5> QED BY <1>4, <1>18, <2>4, <5>1 DEF IInv, CoverInv
      <4>2. CASE n = h
        BY <2>4, <4>2
      <4>3. CASE ~(n <= cursor) /\ n # h
        <5>1. n > cursor /\ n < h /\ n <= Low /\ n \in (from + 1)..Low
          BY <1>4, <4>0, <4>3, Numbers
        <5>2. n \in ToSet(todo) \union overrun
          BY <1>18, <5>1 DEF IInv, CoverInv
        <5>3. n \notin ToSet(todo)
          BY <1>4, <1>7, <4>0, <5>1
        <5> QED BY <5>2, <5>3
      <4> QED BY <4>1, <4>2, <4>3
    <3>2. ASSUME NEW n \in (from + 1)..Low, n > cursor' PROVE n \in ToSet(todo') \union overrun
      <4>1. n > cursor /\ n # h
        BY <1>4, <3>2, Numbers
      <4>2. n \in ToSet(todo) \union overrun
        BY <1>18, <3>2, <4>1 DEF IInv, CoverInv
      <4> QED BY <1>7, <2>1, <4>1, <4>2
    <3>3. Low' = Low
      BY <1>1 DEF Low
    <3> QED BY <1>1, <1>8, <3>1, <3>2, <3>3 DEF CoverInv
  <2>7. SnapInv'
    <3>1. ASSUME NEW k \in 1..Len(wire'), wire'[k].kind = "snap"
          PROVE  /\ wire'[k].snap.seq <= seq
                 /\ Accounts(wire'[k].snap, Ahead(got, wire', k), reader, cursor', from, overrun)
      <4>1. k \in 1..Len(wire)
        BY <1>5, <2>1, <2>2, <3>1
      <4>2. k \in 1..(Len(wire) + 1)
        BY ONLY <1>9, <4>1
      <4>3. /\ wire[k].snap.seq <= seq
            /\ Accounts(wire[k].snap, Ahead(got, wire, k), reader, cursor, from, overrun)
        BY <1>18, <2>1, <3>1, <4>1 DEF IInv, SnapInv
      <4>4. Accounts(wire[k].snap, Ahead(got, wire, k), reader, cursor', from, overrun)
        BY <1>3, <4>3 DEF Accounts
      <4> QED BY <2>1, <2>3, <4>1, <4>2, <4>3, <4>4
    <3>2. tpc' \notin {"snap", "send"}
      BY <1>1, <1>2, <1>18
    <3> QED BY <1>1, <3>1, <3>2 DEF SnapInv
  <2> QED BY <1>11, <1>12, <1>13, <1>15, <2>5, <2>6, <2>7 DEF IInv
<1> QED BY <1>17, <1>18

LEMMA AnswerStep == ASSUME IInv, AnswerStatus PROVE IInv'
<1>1. /\ UNCHANGED <<vm, seq, ring, work, heart, lease, reader, cpc, why, misses, got, last, todo, due, wire, cursor,
                     overrun>>
      /\ tpc = "asked" /\ tpc' = "snap" /\ locked' = TRUE
      /\ draft' = [seq |-> seq, lines |-> SnapshotLines(cursor),
                   done |-> lease.done, lost |-> lease.lost, error |-> FALSE]
      /\ from' = IF cursor = None THEN (IF seq > TailSize THEN seq - TailSize ELSE 0) ELSE from
  BY DEF AnswerStatus, jobvars, leasevars, clientvars
<1>2. reader = "follow" /\ todo = <<>> /\ wire = <<>> /\ cpc = "wait" /\ cpc # "ended"
  BY <1>1 DEF IInv, WatchInv, FollowInv, TypeOK, Readers
<1>3. \E c \in Nat : /\ SnapshotLines(cursor) = Newest(c) /\ c <= Len(ring)
                     /\ cursor # None => seq = c + (IF cursor > Low THEN cursor ELSE Low)
                     /\ cursor = None => c = TailSize \/ (seq = c /\ Low = 0)
                     /\ cursor = None => c <= TailSize
  <2>1. CASE cursor = None
    <3>1. PICK c \in Nat : /\ SnapshotLines(None) = Newest(c) /\ c <= Len(ring) /\ c <= TailSize
                           /\ c = TailSize \/ (seq = c /\ Low = 0)
      BY TailIs
    <3> QED BY <2>1, <3>1
  <2>2. CASE cursor # None
    <3>1. cursor \in 0..seq
      BY <2>2, Numbers
    <3>2. PICK c \in Nat : /\ Since(cursor) = Newest(c) /\ c <= Len(ring)
                           /\ seq = c + (IF cursor > Low THEN cursor ELSE Low)
      BY <3>1, SinceIs DEF IInv
    <3>3. SnapshotLines(cursor) = Since(cursor)
      BY <2>2 DEF SnapshotLines
    <3> QED BY <2>2, <3>2, <3>3
  <2> QED BY <2>1, <2>2
<1>4. PICK c \in Nat : /\ SnapshotLines(cursor) = Newest(c) /\ c <= Len(ring)
                       /\ cursor # None => seq = c + (IF cursor > Low THEN cursor ELSE Low)
                       /\ cursor = None => c = TailSize \/ (seq = c /\ Low = 0)
                       /\ cursor = None => c <= TailSize
  BY <1>3
<1>5. /\ Newest(c) \in Seq(Lines) /\ Len(Newest(c)) = c /\ \A i \in 1..c : Newest(c)[i] = seq - c + i
      /\ \A n : n \in ToSet(Newest(c)) <=> n \in (seq - c + 1)..seq
  BY <1>4, NewestIs DEF IInv
<1>6. /\ draft' \in Snapshots /\ draft'.seq = seq /\ draft'.lines = Newest(c)
  <2>1. seq \in 0..MaxLines /\ lease.done \in BOOLEAN /\ lease.lost \in BOOLEAN
    BY DEF IInv, TypeOK
  <2> QED BY <1>1, <1>4, <1>5, <2>1 DEF Snapshots
<1>7. from' \in Nat /\ from' <= MaxLines /\ (cursor = None => from' >= Low /\ from' >= seq - c)
  <2>1. cursor = None => from' = IF seq > TailSize THEN seq - TailSize ELSE 0
    BY <1>1
  <2>2. cursor # None => from' = from
    BY <1>1
  <2>3. from <= MaxLines
    BY DEF IInv, TypeOK
  <2>4. Len(ring) \in Nat /\ seq = Low + Len(ring)
    BY RingIs DEF IInv
  <2>5. CASE cursor = None
    <3>1. from' = (IF seq > TailSize THEN seq - TailSize ELSE 0) /\ (c = TailSize \/ (seq = c /\ Low = 0)) /\ c <= Len(ring)
      BY <1>4, <2>1, <2>5
    <3>2. from' \in Nat /\ from' <= seq /\ from' >= seq - TailSize
      BY ONLY <3>1, Numbers, IInv
    <3>3. CASE c = TailSize
      BY ONLY <2>4, <3>1, <3>2, <3>3, Numbers, IInv
    <3>4. CASE seq = c /\ Low = 0
      BY ONLY <2>4, <3>1, <3>2, <3>4, Numbers, IInv
    <3> QED BY <3>1, <3>2, <3>3, <3>4, Numbers
  <2>6. CASE cursor # None
    BY <2>2, <2>3, <2>6, Numbers
  <2> QED BY <2>5, <2>6
<1>8. TypeOK'
  BY <1>1, <1>6, <1>7, Numbers DEF IInv, TypeOK, ThreadStates
<1>9. RingInv' /\ BoundInv' /\ (cpc' = "ended" => wire' = <<>>)
  BY <1>1, <1>2 DEF IInv, RingInv, BoundInv, Low
<1>10. WatchInv' /\ FollowInv'
  BY <1>1, <1>2 DEF IInv, WatchInv, FollowInv
<1>11. OrderInv'
  BY <1>1, OrderKept DEF IInv
<1>12. CoverInv'
  <2>1. AheadOfAll' = AheadOfAll /\ Low' = Low
    BY <1>1 DEF AheadOfAll, Low
  <2>2. CASE cursor = None
    <3>1. (from' + 1)..Low = {}
      BY <1>7, <2>2, EmptyRange, Numbers
    <3> QED BY <1>1, <2>1, <2>2, <3>1 DEF CoverInv
  <2>3. CASE cursor # None
    <3>1. from' = from
      BY <1>1, <2>3
    <3> QED BY <1>1, <2>1, <3>1 DEF IInv, CoverInv
  <2> QED BY <2>2, <2>3
<1>13. Continues(draft', cursor, from', overrun)
  <2>1. \A i, j \in 1..c : i < j => Newest(c)[i] < Newest(c)[j]
    <3>1. \A i, j \in 1..c : i < j => seq - c + i < seq - c + j
      BY Numbers
    <3> QED BY <1>5, <3>1
  <2>2. \A i \in 1..c : Newest(c)[i] <= seq
    <3>1. \A i \in 1..c : seq - c + i <= seq
      BY Numbers
    <3> QED BY <1>5, <3>1
  <2>3. cursor # None => cursor <= seq /\ \A i \in 1..c : cursor < Newest(c)[i]
    <3>1. cursor # None => cursor <= seq - c
      BY <1>4, Numbers
    <3>2. cursor # None => \A i \in 1..c : cursor < seq - c + i
      BY <3>1, Numbers
    <3> QED BY <1>5, <3>2, Numbers
  <2>4. ASSUME NEW n \in (from' + 1)..seq, ~(cursor # None /\ n <= cursor)
        PROVE  n \in ToSet(Newest(c)) \union overrun
    <3>1. n \in Nat /\ n > from' /\ n <= seq
      <4>1. from' \in Nat /\ seq \in Nat /\ n \in (from' + 1)..seq
        BY <1>7, Numbers
      <4> QED BY ONLY <4>1, RangeIs
    <3>2. CASE n > seq - c
      <4>1. n \in (seq - c + 1)..seq
        BY <3>1, <3>2, Numbers
      <4> QED BY <1>5, <4>1
    <3>3. CASE ~(n > seq - c)
      <4>1. cursor # None
        BY <1>7, <3>1, <3>3, Numbers
      <4>2. n > cursor /\ n <= Low
        BY <1>4, <2>4, <3>1, <3>3, <4>1, Numbers
      <4>3. n \in (from + 1)..Low
        BY <1>1, <3>1, <4>1, <4>2, Numbers
      <4>4. n \in ToSet(todo) \union overrun
        BY <1>2, <4>2, <4>3 DEF IInv, CoverInv
      <4> QED BY <1>2, <4>4 DEF ToSet
    <3> QED BY <3>2, <3>3
  <2> QED BY <1>5, <1>6, <2>1, <2>2, <2>3, <2>4 DEF Continues
<1>14. SnapInv'
  <2>1. Accounts(draft', AheadOfAll', reader', cursor', from', overrun')
    BY <1>1, <1>2, <1>13 DEF Accounts
  <2>2. draft'.seq <= seq' /\ wire' = <<>>
    BY <1>1, <1>2, <1>6, Numbers
  <2> QED BY <2>1, <2>2, EmptySeq DEF SnapInv
<1>15. DoneReaderHasTheEnd'
  BY <1>1, <1>2 DEF IInv, TypeOK, DoneReaderHasTheEnd
<1> QED BY <1>8, <1>9, <1>10, <1>11, <1>12, <1>14, <1>15 DEF IInv

-----------------------------------------------------------------------------
(* The reader. *)

\* A reader asks, or waits before it asks again.
LEMMA AskStep == ASSUME IInv, Connect \/ Poll \/ PollAgain PROVE IInv'
<1>1. /\ UNCHANGED <<vm, seq, ring, locked, work, heart, lease, reader, why, misses, got, last, todo, draft, due, cursor,
                     wire, from, overrun>>
      /\ \/ reader = "watch" /\ cpc = "start" /\ cpc' = "wait" /\ tpc' = "accepted"
         \/ reader = "follow" /\ cpc = "start" /\ tpc = "none" /\ cpc' = "wait" /\ tpc' = "asked"
         \/ reader = "follow" /\ cpc = "sleep" /\ cpc' = "start" /\ tpc' = tpc
  BY DEF Connect, Poll, PollAgain, inside, jobvars, leasevars, servevars, serving, ghosts
<1>2. TypeOK'
  <2>1. tpc' \in ThreadStates /\ cpc' \in ReaderStates
    BY <1>1 DEF IInv, TypeOK, ThreadStates, ReaderStates
  <2>2. (why' = "none") = (cpc' # "ended")
    BY <1>1 DEF IInv, TypeOK
  <2> QED BY <1>1, <2>1, <2>2 DEF IInv, TypeOK
<1>3. RingInv' /\ BoundInv' /\ (cpc' = "ended" => wire' = <<>>)
  BY <1>1 DEF IInv, RingInv, BoundInv, Low
<1>4. WatchInv'
  BY <1>1 DEF IInv, WatchInv
<1>5. FollowInv'
  BY <1>1 DEF IInv, FollowInv
<1>6. OrderInv' /\ CoverInv' /\ DoneReaderHasTheEnd'
  BY <1>1, OrderKept, CoverKept, EndKept DEF IInv
<1>7. SnapInv'
  BY <1>1, SnapKept, Numbers
<1> QED BY <1>2, <1>3, <1>4, <1>5, <1>6, <1>7 DEF IInv

\* A reader that gives up keeps what it was handed.
LEMMA GivesUp ==
    ASSUME IInv,
           UNCHANGED <<vm, seq, ring, locked, work, heart, lease, reader, got, last, todo, draft, due, cursor, ghosts>>,
           cpc' = "ended", wire' = <<>>, misses' \in 0..MaxMisses,
           why' \in {"closed", "deadline", "refused", "unreachable"},
           cpc = "ended" => FALSE,
           reader = "watch" => tpc' = tpc, reader = "follow" => tpc' = "none"
    PROVE  IInv'
<1>1. TypeOK'
  <2>1. tpc' \in ThreadStates
    BY DEF IInv, TypeOK, ThreadStates, Readers
  <2>2. wire' \in Seq(Frames) /\ Len(wire') <= WireCap
    BY TelemetryAssumption, EmptySeq
  <2>3. why' \in Endings /\ (why' = "none") = (cpc' # "ended") /\ cpc' \in ReaderStates
    BY DEF Endings, ReaderStates
  <2> QED BY <2>1, <2>2, <2>3 DEF IInv, TypeOK, ghosts
<1>2. RingInv' /\ BoundInv' /\ (cpc' = "ended" => wire' = <<>>)
  BY DEF IInv, RingInv, BoundInv, Low
<1>3. WatchInv' /\ FollowInv'
  BY DEF IInv, WatchInv, FollowInv
<1>4. OrderInv'
  <2>1. 1..Len(wire') = {}
    BY EmptySeq
  <2> QED BY <2>1 DEF IInv, OrderInv, Low
<1>5. CoverInv' /\ SnapInv' /\ DoneReaderHasTheEnd'
  BY DEF CoverInv, SnapInv, DoneReaderHasTheEnd
<1> QED BY <1>1, <1>2, <1>3, <1>4, <1>5 DEF IInv

LEMMA EndStep == ASSUME IInv, StreamBreaks \/ WatchExpires \/ Refused \/ StopFollowing PROVE IInv'
<1>1. /\ UNCHANGED <<vm, seq, ring, locked, work, heart, lease, reader, got, last, todo, draft, due, cursor, ghosts>>
      /\ cpc' = "ended" /\ wire' = <<>> /\ misses' = misses /\ cpc # "ended"
      /\ why' \in {"closed", "deadline", "refused"}
      /\ \/ reader = "watch" /\ tpc' = tpc
         \/ reader = "follow" /\ tpc' = "none"
         \/ reader = "follow" /\ cpc = "start" /\ tpc' = tpc
  BY DEF StreamBreaks, WatchExpires, Refused, StopFollowing, End, inside, jobvars, leasevars, servevars, serving
<1>2. reader = "follow" => tpc' = "none"
  BY <1>1 DEF IInv, FollowInv
<1>3. misses' \in 0..MaxMisses
  BY <1>1 DEF IInv, TypeOK
<1> QED BY <1>1, <1>2, <1>3, GivesUp

\* The wire of a poll holds no line.
LEMMA AheadOfPoll == ASSUME IInv, reader = "follow" PROVE AheadOfAll = ToSet(got)
<1>1. \A l \in 1..(Len(wire) + 1 - 1) : wire[l].kind = "snap"
  <2>1. CASE wire = <<>>
    BY <2>1
  <2>2. CASE wire # <<>>
    <3>1. Len(wire) = 1 /\ wire[1].kind = "snap"
      BY <2>2 DEF IInv, FollowInv
    <3> QED BY <3>1
  <2> QED BY <2>1, <2>2
<1> QED BY <1>1 DEF AheadOfAll, Ahead

LEMMA MissStep == ASSUME IInv, Miss PROVE IInv'
<1>1. /\ UNCHANGED <<vm, seq, ring, locked, work, heart, lease, reader, got, last, todo, draft, due, cursor, from, overrun>>
      /\ reader = "follow" /\ cpc = "wait" /\ misses' = misses + 1 /\ tpc' = "none" /\ wire' = <<>>
      /\ \/ cpc' = "ended" /\ why' = "unreachable"
         \/ ~(misses + 1 >= MaxMisses) /\ cpc' = "sleep" /\ why' = why
  BY DEF Miss, End, inside, jobvars, leasevars, serving, ghosts
<1>2. misses \in Nat /\ MaxMisses \in Nat /\ misses < MaxMisses
  BY <1>1, TelemetryAssumption DEF IInv, TypeOK, FollowInv
<1>3. misses' \in 0..MaxMisses
  BY <1>1, <1>2
<1>4. CASE cpc' = "ended"
  BY <1>1, <1>3, <1>4, GivesUp DEF ghosts
<1>5. CASE cpc' # "ended"
  <2>1. cpc' = "sleep" /\ why' = why /\ misses' < MaxMisses
    BY <1>1, <1>2, <1>5
  <2>2. TypeOK'
    <3>1. wire' \in Seq(Frames) /\ Len(wire') <= WireCap
      BY <1>1, TelemetryAssumption, EmptySeq
    <3>2. tpc' \in ThreadStates /\ cpc' \in ReaderStates
      BY <1>1, <2>1 DEF ThreadStates, ReaderStates
    <3>3. (why' = "none") = (cpc' # "ended")
      BY <1>1, <2>1 DEF IInv, TypeOK
    <3> QED BY <1>1, <1>3, <2>1, <3>1, <3>2, <3>3 DEF IInv, TypeOK
  <2>3. RingInv' /\ BoundInv' /\ (cpc' = "ended" => wire' = <<>>)
    BY <1>1 DEF IInv, RingInv, BoundInv, Low
  <2>4. WatchInv' /\ FollowInv'
    BY <1>1, <2>1 DEF IInv, WatchInv, FollowInv
  <2>5. 1..Len(wire') = {} /\ AheadOfAll' = AheadOfAll
    <3>1. AheadOfAll' = ToSet(got)
      <4>1. 1..(Len(<<>>) + 1 - 1) = {}
        BY EmptySeq
      <4> QED BY <1>1, <4>1 DEF AheadOfAll, Ahead
    <3> QED BY <1>1, <3>1, AheadOfPoll, EmptySeq
  <2>6. OrderInv'
    BY <1>1, <2>5 DEF IInv, OrderInv, Low
  <2>7. CoverInv'
    BY <1>1, <2>5 DEF IInv, CoverInv, Low
  <2>8. SnapInv'
    BY <1>1, <2>5 DEF SnapInv
  <2>9. DoneReaderHasTheEnd'
    BY <1>1, <2>1, EndKept DEF IInv
  <2> QED BY <2>2, <2>3, <2>4, <2>6, <2>7, <2>8, <2>9 DEF IInv
<1> QED BY <1>4, <1>5

LEMMA YieldStep == ASSUME IInv, Yield PROVE IInv'
<1>1. /\ UNCHANGED <<vm, seq, ring, locked, work, heart, lease, reader, misses, tpc, todo, draft, due, cursor, from, overrun>>
      /\ reader = "watch" /\ cpc = "reading" /\ wire # <<>>
  BY DEF Yield, inside, jobvars, leasevars, servevars, serving, ghosts
<1>2. /\ wire \in Seq(Frames) /\ Len(wire) \in Nat \ {0} /\ wire[1] \in Frames /\ Head(wire) = wire[1]
      /\ Tail(wire) \in Seq(Frames) /\ Len(Tail(wire)) = Len(wire) - 1
      /\ \A k \in 1..Len(Tail(wire)) : Tail(wire)[k] = wire[k + 1]
      /\ got \in Seq(Lines)
  <2>1. wire \in Seq(Frames) /\ Len(wire) \in Nat \ {0} /\ got \in Seq(Lines)
    BY <1>1, EmptySeq, LenProperties DEF IInv, TypeOK
  <2> QED BY <1>1, <2>1, ElementOfSeq, HeadTailProperties
<1>3. \/ /\ ~(wire[1].kind = "snap" /\ wire[1].snap.done)
         /\ got' = IF wire[1].kind = "line" THEN Append(got, wire[1].n) ELSE got
         /\ wire' = Tail(wire) /\ cpc' = cpc /\ why' = why /\ last' = last
      \/ /\ wire[1].kind = "snap"
         /\ got' = got /\ wire' = <<>> /\ cpc' = "ended" /\ why' = "done" /\ last' = wire[1].snap
  <2>1. wire[1].kind = "line" \/ wire[1].kind = "snap"
    BY <1>2 DEF Frames
  <2> QED BY <1>2, <2>1 DEF Yield, End
<1>4. RingInv' /\ BoundInv'
  BY <1>1 DEF IInv, RingInv, BoundInv, Low
<1>5. CASE /\ wire[1].kind = "snap"
           /\ got' = got /\ wire' = <<>> /\ cpc' = "ended" /\ why' = "done" /\ last' = wire[1].snap
  <2>1. TypeOK'
    <3>1. last' \in Snapshots
      BY <1>2, <1>5 DEF Frames
    <3>2. wire' \in Seq(Frames) /\ Len(wire') <= WireCap
      BY <1>5, TelemetryAssumption, EmptySeq
    <3>3. why' \in Endings /\ cpc' \in ReaderStates /\ (why' = "none") = (cpc' # "ended")
      BY <1>5 DEF Endings, ReaderStates
    <3> QED BY <1>1, <1>5, <3>1, <3>2, <3>3 DEF IInv, TypeOK
  <2>2. WatchInv' /\ FollowInv' /\ (cpc' = "ended" => wire' = <<>>)
    BY <1>1, <1>5 DEF IInv, WatchInv, FollowInv
  <2>3. OrderInv'
    <3>1. 1..Len(wire') = {}
      BY <1>5, EmptySeq
    <3> QED BY <1>1, <1>5, <3>1 DEF IInv, OrderInv, Low
  <2>4. CoverInv' /\ SnapInv'
    BY <1>5 DEF CoverInv, SnapInv
  <2>5. DoneReaderHasTheEnd'
    <3>1. 1 \in 1..Len(wire)
      BY ONLY <1>2
    <3>2. Accounts(wire[1].snap, Ahead(got, wire, 1), reader, cursor, from, overrun)
      BY <1>1, <1>5, <3>1 DEF IInv, SnapInv
    <3>3. Ahead(got, wire, 1) = ToSet(got)
      BY DEF Ahead
    <3>4. Completes(last', ToSet(got), from, overrun)
      BY <1>1, <1>5, <3>2, <3>3 DEF Accounts
    <3> QED BY <1>1, <1>5, <3>4 DEF Completes, DoneReaderHasTheEnd
  <2> QED BY <1>4, <2>1, <2>2, <2>3, <2>4, <2>5 DEF IInv
<1>6. CASE /\ got' = IF wire[1].kind = "line" THEN Append(got, wire[1].n) ELSE got
           /\ wire' = Tail(wire) /\ cpc' = cpc /\ why' = why /\ last' = last
  <2>1. \A k \in 1..Len(wire) : Ahead(got', wire', k) = Ahead(got, wire, k + 1)
    <3>1. ASSUME NEW h, h = IF wire[1].kind = "line" THEN Append(got, wire[1].n) ELSE got, NEW k \in 1..Len(wire)
          PROVE  Ahead(h, Tail(wire), k) = Ahead(got, wire, k + 1)
      BY <1>1, <1>2, <3>1, AheadTail
    <3> QED BY <1>6, <3>1
  <2>2. AheadOfAll' = AheadOfAll
    <3>1. Len(wire') + 1 = Len(wire) /\ Len(wire) \in 1..Len(wire)
      BY <1>2, <1>6
    <3> QED BY <2>1, <3>1 DEF AheadOfAll
  <2>3. /\ got' \in Seq(Lines)
        /\ \A i \in 1..Len(got') :
               \/ i \in 1..Len(got) /\ got'[i] = got[i]
               \/ wire[1].kind = "line" /\ i = Len(got) + 1 /\ got'[i] = wire[1].n
    <3>1. CASE wire[1].kind = "line"
      <4>1. wire[1].n \in Lines
        BY <1>2, <3>1 DEF Frames
      <4>2. /\ got' \in Seq(Lines) /\ Len(got') = Len(got) + 1 /\ got'[Len(got) + 1] = wire[1].n
            /\ \A i \in 1..Len(got) : got'[i] = got[i]
        BY <1>2, <1>6, <3>1, <4>1, AppendProperties
      <4>3. \A i \in 1..Len(got') : i \in 1..Len(got) \/ i = Len(got) + 1
        <5>1. Len(got) \in Nat
          BY <1>2, LenProperties
        <5> QED BY ONLY <4>2, <5>1
      <4> QED BY <3>1, <4>2, <4>3
    <3>2. CASE wire[1].kind # "line"
      BY <1>2, <1>6, <3>2
    <3> QED BY <3>1, <3>2
  <2>4. TypeOK'
    <3>1. wire' \in Seq(Frames) /\ Len(wire') <= WireCap
      BY <1>2, <1>6, TelemetryAssumption DEF IInv, TypeOK
    <3> QED BY <1>1, <1>6, <2>3, <3>1 DEF IInv, TypeOK
  <2>5. WatchInv' /\ FollowInv' /\ (cpc' = "ended" => wire' = <<>>)
    BY <1>1, <1>6 DEF IInv, WatchInv, FollowInv
  <2>6. OrderInv'
    <3>1. 1 \in 1..Len(wire)
      BY ONLY <1>2
    <3>2. /\ \A i \in 1..Len(got) : cursor # None /\ got[i] <= cursor
          /\ \A i, j \in 1..Len(got) : i < j => got[i] < got[j]
          /\ wire[1].kind = "line" => /\ cursor # None /\ wire[1].n <= cursor
                                      /\ \A i \in 1..Len(got) : got[i] < wire[1].n
      BY <3>1 DEF IInv, OrderInv
    <3>3. \A i, j \in 1..Len(got') : i < j => got'[i] < got'[j]
      <4>1. Len(got) \in Nat
        BY <1>2, LenProperties
      <4>2. ASSUME NEW i \in 1..Len(got'), NEW j \in 1..Len(got'), i < j PROVE i \in 1..Len(got) /\ got'[i] = got[i]
        <5>1. CASE i \in 1..Len(got) /\ got'[i] = got[i]
          BY <5>1
        <5>2. CASE i = Len(got) + 1
          <6>1. j \in 1..Len(got) \/ j = Len(got) + 1
            BY <2>3
          <6> QED BY ONLY <4>1, <4>2, <5>2, <6>1
        <5> QED BY <2>3, <5>1, <5>2
      <4> QED BY <2>3, <3>2, <4>2
    <3>4. \A i \in 1..Len(got') : cursor # None /\ got'[i] <= cursor
      BY <2>3, <3>2
    <3>5. ASSUME NEW k \in 1..Len(wire'), wire'[k].kind = "line"
          PROVE  /\ cursor # None /\ wire'[k].n <= cursor
                 /\ \A i \in 1..Len(got') : got'[i] < wire'[k].n
                 /\ \A l \in 1..k-1 : wire'[l].kind = "line" => wire'[l].n < wire'[k].n
      <4>1. Len(wire') = Len(wire) - 1 /\ wire'[k] = wire[k + 1]
        BY <1>2, <1>6
      <4>2. k + 1 \in 1..Len(wire) /\ 1 \in 1..((k + 1) - 1)
        BY ONLY <1>2, <4>1, k \in 1..Len(wire')
      <4>3. /\ cursor # None /\ wire[k + 1].n <= cursor
            /\ \A i \in 1..Len(got) : got[i] < wire[k + 1].n
            /\ \A l \in 1..((k + 1) - 1) : wire[l].kind = "line" => wire[l].n < wire[k + 1].n
        BY <3>5, <4>1, <4>2 DEF IInv, OrderInv
      <4>4. ASSUME NEW l \in 1..k-1 PROVE wire'[l] = wire[l + 1] /\ l + 1 \in 1..((k + 1) - 1)
        <5>1. l \in 1..Len(wire') /\ l + 1 \in 1..((k + 1) - 1)
          BY ONLY <1>2, <4>1, k \in 1..Len(wire'), l \in 1..k-1
        <5> QED BY <1>2, <1>6, <5>1
      <4>5. \A i \in 1..Len(got') : got'[i] < wire'[k].n
        BY <2>3, <4>1, <4>2, <4>3
      <4> QED BY <4>1, <4>3, <4>4, <4>5
    <3> QED BY <1>1, <3>3, <3>4, <3>5 DEF IInv, OrderInv, Low
  <2>7. CoverInv'
    BY <1>1, <1>6, <2>2 DEF IInv, CoverInv, Low
  <2>8. SnapInv'
    <3>1. ASSUME NEW k \in 1..Len(wire'), wire'[k].kind = "snap"
          PROVE  /\ wire'[k].snap.seq <= seq
                 /\ Accounts(wire'[k].snap, Ahead(got', wire', k), reader, cursor, from, overrun)
      <4>1. Len(wire') = Len(wire) - 1 /\ wire'[k] = wire[k + 1]
        BY <1>2, <1>6
      <4>2. k + 1 \in 1..Len(wire) /\ k \in 1..Len(wire)
        BY ONLY <1>2, <4>1, k \in 1..Len(wire')
      <4>3. Ahead(got', wire', k) = Ahead(got, wire, k + 1)
        BY <2>1, <4>2
      <4> QED BY <1>1, <3>1, <4>1, <4>2, <4>3 DEF IInv, SnapInv
    <3>2. tpc \in {"snap", "send"} => draft.seq <= seq /\ Accounts(draft, AheadOfAll, reader, cursor, from, overrun)
      BY <1>1 DEF IInv, SnapInv
    <3> QED BY <1>1, <2>2, <3>1, <3>2 DEF SnapInv
  <2>9. DoneReaderHasTheEnd'
    <3>1. why' = "none"
      BY <1>1, <1>6 DEF IInv, TypeOK
    <3> QED BY <3>1 DEF DoneReaderHasTheEnd
  <2> QED BY <1>4, <2>4, <2>5, <2>6, <2>7, <2>8, <2>9 DEF IInv
<1> QED BY <1>3, <1>5, <1>6

LEMMA FollowedStep == ASSUME IInv, Follow PROVE IInv'
<1> DEFINE snap == wire[1].snap
<1>1. /\ UNCHANGED <<vm, seq, ring, locked, work, heart, lease, reader, tpc, todo, draft, due, from, overrun>>
      /\ reader = "follow" /\ cpc = "wait" /\ wire # <<>> /\ misses' = 0
  BY DEF Follow, inside, jobvars, leasevars, serving, ghosts
<1>2. Len(wire) = 1 /\ wire[1].kind = "snap" /\ tpc = "none" /\ todo = <<>>
  BY <1>1 DEF IInv, FollowInv
<1>3. /\ snap \in Snapshots /\ snap.seq \in 0..MaxLines /\ snap.seq \in Nat /\ snap.lines \in Seq(Lines)
      /\ Head(wire) = wire[1] /\ got \in Seq(Lines)
  <2>1. wire \in Seq(Frames) /\ got \in Seq(Lines)
    BY DEF IInv, TypeOK
  <2>2. wire[1] \in Frames /\ Head(wire) = wire[1]
    BY <1>1, <1>2, <2>1, ElementOfSeq, HeadTailProperties
  <2>3. snap \in Snapshots
    BY <1>2, <2>2 DEF Frames
  <2> QED BY <2>1, <2>2, <2>3, Numbers DEF Snapshots
<1>4. snap.seq <= seq /\ Continues(snap, cursor, from, overrun)
  <2>1. 1 \in 1..Len(wire)
    BY <1>2
  <2> QED BY <1>1, <1>2, <2>1 DEF IInv, SnapInv, Accounts
<1>5. /\ got' = got \o snap.lines /\ cursor' = snap.seq /\ wire' = <<>>
      /\ \/ cpc' = "ended" /\ why' \in {"done", "failed"} /\ last' = snap
         \/ cpc' = "ended" /\ why' = "lost" /\ last' = last
         \/ cpc' = "sleep" /\ why' = why /\ last' = last
  BY <1>3 DEF Follow, End
<1> HIDE DEF snap
<1>6. /\ got' \in Seq(Lines) /\ Len(got') = Len(got) + Len(snap.lines)
      /\ \A i \in 1..Len(got') : got'[i] = IF i <= Len(got) THEN got[i] ELSE snap.lines[i - Len(got)]
      /\ Len(got) \in Nat /\ Len(snap.lines) \in Nat
      /\ DOMAIN got = 1..Len(got) /\ DOMAIN got' = 1..Len(got') /\ DOMAIN snap.lines = 1..Len(snap.lines)
  BY <1>3, <1>5, ConcatProperties, LenProperties
<1>7. \A i \in 1..Len(got') : \/ i \in 1..Len(got) /\ got'[i] = got[i]
                              \/ i > Len(got) /\ i - Len(got) \in 1..Len(snap.lines) /\ got'[i] = snap.lines[i - Len(got)]
  <2>1. ASSUME NEW i \in 1..Len(got')
        PROVE  (i <= Len(got) /\ i \in 1..Len(got)) \/ (~(i <= Len(got)) /\ i > Len(got) /\ i - Len(got) \in 1..Len(snap.lines))
    <3>1. i \in 1..(Len(got) + Len(snap.lines))
      BY <1>6
    <3> QED BY ONLY <1>6, <3>1
  <2>2. ASSUME NEW i \in 1..Len(got')
        PROVE  \/ i \in 1..Len(got) /\ got'[i] = got[i]
               \/ i > Len(got) /\ i - Len(got) \in 1..Len(snap.lines) /\ got'[i] = snap.lines[i - Len(got)]
    <3>1. CASE i <= Len(got) /\ i \in 1..Len(got)
      BY <1>6, <3>1
    <3>2. CASE ~(i <= Len(got)) /\ i > Len(got) /\ i - Len(got) \in 1..Len(snap.lines)
      BY <1>6, <3>2
    <3> QED BY <2>1, <3>1, <3>2
  <2> QED BY <2>2
<1>8. ToSet(got) \union ToSet(snap.lines) \subseteq ToSet(got')
  <2>1. ASSUME NEW i \in 1..Len(got) PROVE got[i] \in ToSet(got')
    <3>1. i \in 1..Len(got') /\ i <= Len(got)
      <4>1. i \in 1..(Len(got) + Len(snap.lines)) /\ i <= Len(got)
        BY ONLY <1>6, i \in 1..Len(got)
      <4> QED BY <1>6, <4>1
    <3> QED BY <1>6, <3>1 DEF ToSet
  <2>2. ASSUME NEW i \in 1..Len(snap.lines) PROVE snap.lines[i] \in ToSet(got')
    <3>1. Len(got) + i \in 1..(Len(got) + Len(snap.lines)) /\ ~(Len(got) + i <= Len(got)) /\ (Len(got) + i) - Len(got) = i
      BY ONLY <1>6, i \in 1..Len(snap.lines)
    <3>2. Len(got) + i \in 1..Len(got') /\ got'[Len(got) + i] = snap.lines[i]
      BY <1>6, <3>1
    <3> QED BY <1>6, <3>2 DEF ToSet
  <2> QED BY <1>6, <2>1, <2>2 DEF ToSet
<1>9. \A i \in 1..Len(got) : got[i] \in Nat /\ cursor # None /\ got[i] <= cursor
  <2>1. \A i \in 1..Len(got) : got[i] \in Lines
    BY <1>3, ElementOfSeq
  <2> QED BY <2>1, Numbers DEF Lines, IInv, OrderInv
<1>10. \A i \in 1..Len(snap.lines) : snap.lines[i] \in Nat
  <2>1. \A i \in 1..Len(snap.lines) : snap.lines[i] \in Lines
    BY <1>3, ElementOfSeq
  <2> QED BY <2>1, Numbers DEF Lines
<1>11. snap.seq # None
  BY <1>3, TelemetryAssumption
<1>12. TypeOK'
  <2>1. wire' \in Seq(Frames) /\ Len(wire') <= WireCap
    BY <1>5, TelemetryAssumption, EmptySeq
  <2>2. /\ why' \in Endings /\ cpc' \in ReaderStates /\ (why' = "none") = (cpc' # "ended")
    BY <1>1, <1>5 DEF IInv, TypeOK, Endings, ReaderStates
  <2>3. last' \in Snapshots /\ cursor' \in 0..MaxLines \union {None} /\ misses' \in 0..MaxMisses
    BY <1>1, <1>3, <1>5, TelemetryAssumption DEF IInv, TypeOK
  <2> QED BY <1>1, <1>6, <2>1, <2>2, <2>3 DEF IInv, TypeOK
<1>13. RingInv' /\ BoundInv' /\ (cpc' = "ended" => wire' = <<>>)
  BY <1>1, <1>5 DEF IInv, RingInv, BoundInv, Low
<1>14. WatchInv' /\ FollowInv'
  BY <1>1, <1>2, <1>5, <1>11, TelemetryAssumption DEF WatchInv, FollowInv
<1>15. OrderInv'
  <2>1. ASSUME NEW i \in 1..Len(got'), NEW j \in 1..Len(got'), i < j PROVE got'[i] < got'[j]
    <3>1. CASE j \in 1..Len(got) /\ got'[j] = got[j]
      <4>1. i \in 1..Len(got)
        BY ONLY <1>6, <2>1, <3>1
      <4>2. got'[i] = got[i]
        BY <1>6, <1>7, <4>1
      <4> QED BY <2>1, <3>1, <4>1, <4>2 DEF IInv, OrderInv
    <3>2. CASE j - Len(got) \in 1..Len(snap.lines) /\ got'[j] = snap.lines[j - Len(got)]
      <4>1. CASE i \in 1..Len(got) /\ got'[i] = got[i]
        <5>1. cursor # None /\ got[i] <= cursor /\ got[i] \in Nat /\ cursor \in Nat
          BY <1>9, <4>1, Numbers
        <5>2. cursor < snap.lines[j - Len(got)] /\ snap.lines[j - Len(got)] \in Nat
          BY <1>4, <1>10, <3>2, <5>1 DEF Continues
        <5> QED BY <3>2, <4>1, <5>1, <5>2
      <4>2. CASE i - Len(got) \in 1..Len(snap.lines) /\ got'[i] = snap.lines[i - Len(got)]
        <5>1. i - Len(got) < j - Len(got)
          BY ONLY <1>6, <2>1, i \in 1..Len(got'), j \in 1..Len(got')
        <5> QED BY <1>4, <3>2, <4>2, <5>1 DEF Continues
      <4> QED BY <1>7, <4>1, <4>2
    <3> QED BY <1>7, <3>1, <3>2
  <2>2. ASSUME NEW i \in 1..Len(got') PROVE got'[i] <= snap.seq
    <3>1. CASE i \in 1..Len(got) /\ got'[i] = got[i]
      <4>1. cursor # None /\ got[i] <= cursor /\ got[i] \in Nat /\ cursor \in Nat
        BY <1>9, <3>1, Numbers
      <4>2. cursor <= snap.seq
        BY <1>4, <4>1 DEF Continues
      <4> QED BY <1>3, <3>1, <4>1, <4>2
    <3>2. CASE i - Len(got) \in 1..Len(snap.lines) /\ got'[i] = snap.lines[i - Len(got)]
      BY <1>4, <3>2 DEF Continues
    <3> QED BY <1>7, <3>1, <3>2
  <2>3. 1..Len(wire') = {}
    BY <1>5, EmptySeq
  <2> QED BY <1>1, <1>2, <1>4, <1>5, <1>11, <2>1, <2>2, <2>3 DEF OrderInv
<1>16. ASSUME NEW n \in (from + 1)..snap.seq PROVE n \in ToSet(got') \union overrun
  <2>1. \/ cursor # None /\ n <= cursor
        \/ n \in ToSet(snap.lines) \union overrun
    BY <1>4 DEF Continues
  <2>2. ASSUME cursor # None, n <= cursor PROVE n \in ToSet(got) \union overrun
    <3>1. n \in (from + 1)..cursor
      BY <1>3, <2>2, Numbers
    <3> QED BY <1>1, <2>2, <3>1, AheadOfPoll DEF IInv, CoverInv
  <2> QED BY <1>8, <2>1, <2>2
<1>17. CoverInv'
  <2>1. ToSet(got') \subseteq AheadOfAll'
    BY DEF AheadOfAll, Ahead
  <2>2. ASSUME NEW n \in (from + 1)..Low, n > snap.seq PROVE n \in ToSet(todo) \union overrun
    <3>1. cursor = None \/ n > cursor
      <4>1. cursor # None => cursor <= snap.seq /\ cursor \in Nat
        BY <1>4, Numbers DEF Continues
      <4> QED BY <1>3, <2>2, <4>1, Numbers
    <3> QED BY <1>1, <3>1 DEF IInv, CoverInv
  <2>3. Low' = Low
    BY <1>1 DEF Low
  <2> QED BY <1>1, <1>5, <1>11, <1>16, <2>1, <2>2, <2>3 DEF CoverInv
<1>18. SnapInv'
  <2>1. 1..Len(wire') = {}
    BY <1>5, EmptySeq
  <2> QED BY <1>1, <1>2, <2>1 DEF SnapInv
<1>19. DoneReaderHasTheEnd'
  <2>1. why' \in {"done", "failed"} => last' = snap
    <3>1. why = "none"
      BY <1>1 DEF IInv, TypeOK
    <3> QED BY <1>5, <3>1
  <2> QED BY <1>1, <1>16, <2>1 DEF DoneReaderHasTheEnd
<1> QED BY <1>12, <1>13, <1>14, <1>15, <1>17, <1>18, <1>19 DEF IInv

-----------------------------------------------------------------------------
(* The theorems. *)

LEMMA InitInv == Init => IInv
<1> SUFFICES ASSUME Init PROVE IInv
  OBVIOUS
<1>1. MaxLines \in Nat /\ 3 <= MaxLines /\ MaxMisses \in Nat \ {0} /\ WireCap \in Nat /\ RingSize \in Nat
  BY TelemetryAssumption DEF Reserved
<1>2. Len(ring) = 0 /\ Len(wire) = 0 /\ Len(got) = 0 /\ seq = 0 /\ Low = 0
  <2>1. Len(ring) = 0 /\ Len(wire) = 0 /\ Len(got) = 0 /\ seq = 0
    BY EmptySeq DEF Init
  <2> QED BY <2>1 DEF Low
<1>3. TypeOK
  <2>1. NoSnapshot \in Snapshots
    BY <1>1, EmptySeq DEF NoSnapshot, Snapshots
  <2>2. /\ ring \in Seq(Lines) /\ got \in Seq(Lines) /\ todo \in Seq(Lines) /\ wire \in Seq(Frames)
        /\ Len(ring) <= RingSize /\ Len(wire) <= WireCap
    BY <1>1, <1>2, EmptySeq DEF Init
  <2>3. /\ vm \in {"up", "down"} /\ seq \in 0..MaxLines /\ locked \in BOOLEAN
        /\ work \in WorkStates /\ heart \in {"beating", "marked", "over"}
        /\ lease \in [done : BOOLEAN, lost : BOOLEAN, error : BOOLEAN]
    <3>1. lease \in [done : BOOLEAN, lost : BOOLEAN, error : BOOLEAN]
      BY DEF Init
    <3>2. locked \in BOOLEAN
      BY DEF Init
    <3>3. seq \in 0..MaxLines
      BY <1>1 DEF Init
    <3>4. vm \in {"up", "down"} /\ work \in WorkStates /\ heart \in {"beating", "marked", "over"}
      BY DEF Init, WorkStates
    <3> QED BY <3>1, <3>2, <3>3, <3>4
  <2>4. /\ reader \in Readers /\ cpc \in ReaderStates /\ why \in Endings /\ (why = "none") = (cpc # "ended")
        /\ misses \in 0..MaxMisses
    BY <1>1 DEF Init, ReaderStates, Endings
  <2>5. /\ last \in Snapshots /\ draft \in Snapshots
        /\ tpc \in ThreadStates /\ due \in BOOLEAN /\ cursor \in 0..MaxLines \union {None}
        /\ from \in 0..MaxLines /\ overrun \subseteq Lines
    BY <1>1, <2>1 DEF Init, ThreadStates
  <2> QED BY <2>2, <2>3, <2>4, <2>5 DEF TypeOK
<1>4. RingInv /\ BoundInv
  BY <1>1, <1>2 DEF Init, RingInv, BoundInv, Owed
<1>5. WatchInv /\ FollowInv /\ (cpc = "ended" => wire = <<>>) /\ DoneReaderHasTheEnd
  BY <1>1 DEF Init, WatchInv, FollowInv, DoneReaderHasTheEnd
<1>6. OrderInv /\ SnapInv
  BY <1>2 DEF Init, OrderInv, SnapInv
<1>7. CoverInv
  <2>1. (from + 1)..Low = {}
    BY <1>1, <1>2 DEF Init
  <2> QED BY <2>1 DEF Init, CoverInv
<1> QED BY <1>3, <1>4, <1>5, <1>6, <1>7 DEF IInv

\* The inductive invariant: the ring is the run of lines that ends with seq, what
\* is copied from it is a run too, what is handed over, sent and copied is in order
\* around the cursor, and every line that was promised is somewhere or was overrun.
THEOREM Inductive == Spec => []IInv
<1>1. ASSUME IInv, Next PROVE IInv'
  <2>1. CASE WorkStep
    BY <1>1, <2>1, WorldStep, LogStep DEF WorkStep
  <2>2. CASE HeartStep
    BY <1>1, <2>2, WorldStep, LogStep DEF HeartStep
  <2>3. CASE LogFreely \/ Kill \/ SnapshotDue
    BY <1>1, <2>3, WorldStep, LogStep
  <2>4. CASE StreamStep
    <3>1. CASE CaptureCursor \/ SendHeaders
      BY <1>1, <3>1, OpeningStep
    <3>2. CASE Loop
      BY <1>1, <3>2, PassStep, LoopStep
    <3>3. CASE FinishSnapshot \/ CheckClient \/ Wake
      BY <1>1, <3>3, PassStep
    <3>4. CASE SendSnapshot \/ ReadSince \/ WriteLine
      BY <1>1, <3>4, SendStep, ReadStep, WriteStep
    <3> QED BY <2>4, <3>1, <3>2, <3>3, <3>4 DEF StreamStep
  <2>5. CASE StreamExpires
    BY <1>1, <2>5, PassStep
  <2>6. CASE AnswerStatus
    BY <1>1, <2>6, AnswerStep
  <2>7. CASE WatchStep
    BY <1>1, <2>7, AskStep, YieldStep DEF WatchStep
  <2>8. CASE FollowStep
    BY <1>1, <2>8, AskStep, FollowedStep DEF FollowStep
  <2>9. CASE StreamBreaks \/ WatchExpires \/ Refused \/ StopFollowing
    BY <1>1, <2>9, EndStep
  <2>10. CASE Miss
    BY <1>1, <2>10, MissStep
  <2> QED BY <1>1, <2>1, <2>2, <2>3, <2>4, <2>5, <2>6, <2>7, <2>8, <2>9, <2>10 DEF Next
<1>2. ASSUME IInv, UNCHANGED vars PROVE IInv'
  <2>1. UNCHANGED <<vm, seq, ring, locked, work, heart, lease, reader, cpc, why, misses, got, last, tpc, todo, draft, due,
                    cursor, wire, from, overrun>>
    BY <1>2 DEF vars, jobvars, leasevars, clientvars, servevars, ghosts
  <2>2. TypeOK' /\ BoundInv'
    BY <1>2, <2>1 DEF IInv, TypeOK, BoundInv
  <2> QED BY <1>2, <2>1, <2>2, QuietStep DEF ghosts
<1> QED BY <1>1, <1>2, InitInv, PTL DEF Spec

\* The lines a reader is handed are in the order they were logged, none of them
\* twice, with a ring, a tail and a connection of any size.
THEOREM InOrderOnceHolds == Spec => []InOrderOnce
<1>1. IInv => InOrderOnce
  <2> SUFFICES ASSUME IInv PROVE InOrderOnce
    OBVIOUS
  <2>1. DOMAIN got = 1..Len(got)
    BY LenProperties DEF IInv, TypeOK
  <2> QED BY <2>1 DEF IInv, OrderInv, InOrderOnce
<1> QED BY <1>1, Inductive, PTL

\* A promised line that the cursor has passed has arrived, is on its way, or was
\* overrun: the comment at server.py:614 holds but for what the ring dropped.
THEOREM OnlyOverrunsAreMissedHolds == Spec => []OnlyOverrunsAreMissed
<1>1. IInv => OnlyOverrunsAreMissed
  <2> SUFFICES ASSUME IInv, cpc # "ended", cursor # None, NEW n \in (from + 1)..cursor
               PROVE  n \in ToSet(got) \union Taken \union overrun
    BY DEF OnlyOverrunsAreMissed
  <2>1. n \in AheadOfAll \union overrun
    BY DEF IInv, CoverInv
  <2>2. Len(wire) \in Nat /\ DOMAIN wire = 1..Len(wire)
    BY LenProperties DEF IInv, TypeOK
  <2>3. Len(wire) + 1 - 1 = Len(wire)
    BY ONLY <2>2
  <2> QED BY <2>1, <2>2, <2>3 DEF AheadOfAll, Ahead, Taken, ToSet
<1> QED BY <1>1, Inductive, PTL

\* A reader that ends because the lease is done holds every line up to the
\* snapshot that said so, but what was overrun or is older than a stream's tail.
THEOREM DoneReaderHasTheEndHolds == Spec => []DoneReaderHasTheEnd
<1>1. IInv => DoneReaderHasTheEnd
  BY DEF IInv
<1> QED BY <1>1, Inductive, PTL

=============================================================================
