--------------------------- MODULE HttpStreamProofs ---------------------------
(***************************************************************************)
(* Proofs about module HttpStream: for any frames and any number of GETs.     *)
(***************************************************************************)
EXTENDS HttpStream, FiniteSetTheorems, TLAPS

\* Frames leave the queue at the end at which they did not come in, and what has
\* left and what is left make up what came in.
Ordered ==
  /\ queue \in Seq(Frames) /\ taken \in Seq(Frames)
  /\ pushed = taken \o queue

------------------------------------------------------------------------------
(* The sequences of the channel *)

LEMMA LinesOfAppend ==
  ASSUME NEW q \in Seq(Frames), NEW f \in Frames
  PROVE  Lines(Append(q, f)) = Append(Lines(q), <<f>>)
<1> DEFINE a == Lines(Append(q, f))
           b == Append(Lines(q), <<f>>)
<1>1. Append(q, f) \in Seq(Frames) /\ Len(Append(q, f)) = Len(q) + 1
  OBVIOUS
<1>2. DOMAIN a = 1 .. Len(q) + 1
  BY <1>1 DEF Lines
<1>3. Lines(q) = [i \in 1 .. Len(q) |-> <<q[i]>>]
  BY DEF Lines
<1>4. Lines(q) \in Seq({<<g>> : g \in Frames}) /\ Len(Lines(q)) = Len(q)
  BY <1>3
<1>5. b = [i \in 1 .. Len(q) + 1 |->
            IF i = Len(q) + 1 THEN <<f>> ELSE Lines(q)[i]]
  BY <1>4
<1>6. a = [i \in 1 .. Len(q) + 1 |-> <<Append(q, f)[i]>>]
  BY <1>1 DEF Lines
<1>7. \A i \in 1 .. Len(q) + 1 :
        <<Append(q, f)[i]>> = IF i = Len(q) + 1 THEN <<f>> ELSE Lines(q)[i]
  BY <1>3
<1> HIDE DEF a, b
<1>8. a = b
  BY <1>5, <1>6, <1>7
<1> QED
  BY <1>8 DEF a, b

LEMMA LinesAt ==
  ASSUME NEW q \in Seq(Frames)
  PROVE  /\ Len(Lines(q)) = Len(q)
         /\ \A i \in 1 .. Len(q) : Lines(q)[i] = <<q[i]>>
<1>1. Lines(q) = [i \in 1 .. Len(q) |-> <<q[i]>>]
  BY DEF Lines
<1> QED
  BY <1>1

\* The frame at the head of the queue is the next one after those taken.
LEMMA HeadIsNext ==
  ASSUME Ordered, queue # <<>>
  PROVE  /\ Head(queue) \in Frames
         /\ Len(taken) < Len(pushed)
         /\ Head(queue) = pushed[Len(taken) + 1]
         /\ pushed = Append(taken, Head(queue)) \o Tail(queue)
BY DEF Ordered

------------------------------------------------------------------------------
\* Sending and serving keep the order.
LEMMA OrderedStep ==
  ASSUME Ordered, [Next]_vars
  PROVE  Ordered'
<1> USE DEF frameVars, queueVars, getVars
<1>1. ASSUME NEW f \in Frames, Push(f) PROVE Ordered'
  <2>1. taken \o Append(queue, f) = Append(taken \o queue, f)
    BY DEF Ordered
  <2>2. queue' = Append(queue, f) /\ pushed' = Append(pushed, f) /\ taken' = taken
    BY <1>1 DEF Push
  <2>3. Append(queue, f) \in Seq(Frames)
    BY DEF Ordered
  <2>4. pushed' = taken' \o queue'
    BY <2>1, <2>2, Zenon DEF Ordered
  <2> QED
    BY <2>2, <2>3, <2>4, Zenon DEF Ordered
<1>2. ASSUME NEW g \in Streams, TakeFrame(g) PROVE Ordered'
  <2>1. queue # <<>> /\ UNCHANGED pushed
        /\ queue' = Tail(queue) /\ taken' = Append(taken, Head(queue))
    BY <1>2 DEF TakeFrame
  <2>2. pushed = Append(taken, Head(queue)) \o Tail(queue) /\ Head(queue) \in Frames
    BY <2>1, HeadIsNext
  <2>3. Tail(queue) \in Seq(Frames) /\ Append(taken, Head(queue)) \in Seq(Frames)
    BY <2>1, <2>2 DEF Ordered
  <2> QED
    BY <2>1, <2>2, <2>3, Zenon DEF Ordered
<1>3. CASE UNCHANGED queueVars
  BY <1>3 DEF Ordered
<1> QED
  BY <1>1, <1>2, <1>3 DEF Next, Send, Handle, End, Offer, SendCheck, Open,
    Provide, Wait, WaitTimesOut, Ping, Write, HangUp, Unlist, Close,
    CloseNotify, RunReturns, vars

LEMMA Invariance == Spec => []Ordered
<1>1. Init => Ordered
  BY DEF Init, Ordered
<1> QED
  BY <1>1, OrderedStep, PTL DEF Spec

------------------------------------------------------------------------------
(* Types *)

\* A GET that writes has a frame to write.
Holding ==
  \A g \in Streams : IF gpc[g] = "write" THEN \E f \in Frames : hold[g] = <<f>>
                                        ELSE hold[g] = <<>>

Types ==
  /\ life \in {"listed", "unlisted", "closed", "notified", "over"}
  /\ spc \in [Frames -> {"idle", "session", "open", "sent", "refused"}]
  /\ gpc \in [Streams -> {"idle", "provide", "wait", "asleep", "write", "ping",
                          "done"}]
  /\ alive \in [Streams -> BOOLEAN] /\ DOMAIN hold = Streams
  /\ hold = [g \in Streams |-> hold[g]]
  /\ written \in [Streams -> Seq(Frames)] /\ lost \in SUBSET Frames

TypeInv == Ordered /\ Types /\ Holding

LEMMA TypeStep ==
  ASSUME TypeInv, [Next]_vars
  PROVE  Types' /\ Holding'
<1> USE DEF TypeInv, Types, Holding, frameVars, queueVars, getVars
<1>1. ASSUME NEW f \in Frames, Offer(f) \/ SendCheck(f) PROVE Types' /\ Holding'
  BY <1>1 DEF Offer, SendCheck
<1>2. ASSUME NEW f \in Frames, Push(f) PROVE Types' /\ Holding'
  <2>1. UNCHANGED <<life, alive, hold, written, lost>>
    BY <1>2 DEF Push
  <2>2. spc' = [spc EXCEPT ![f] = "sent"]
    BY <1>2 DEF Push
  <2>3. gpc' = [g \in Streams |-> IF gpc[g] = "asleep" THEN "wait" ELSE gpc[g]]
    BY <1>2 DEF Push, Notified
  <2>4. Holding'
    BY <2>1, <2>3
  <2>5. spc' \in [Frames -> {"idle", "session", "open", "sent", "refused"}]
    BY <2>2
  <2>6. gpc' \in [Streams -> {"idle", "provide", "wait", "asleep", "write", "ping",
                             "done"}]
    BY <2>3
  <2> QED
    BY <2>1, <2>4, <2>5, <2>6
<1>3. ASSUME NEW g \in Streams,
             Open(g) \/ Provide(g) \/ Wait(g) \/ WaitTimesOut(g) \/ Ping(g)
      PROVE Types' /\ Holding'
  <2>1. CASE Open(g)
    BY <2>1 DEF Open
  <2>2. CASE Provide(g)
    BY <2>2 DEF Provide
  <2>3. CASE Wait(g)
    <3>1. \E x \in {"ping", "asleep"} : gpc' = [gpc EXCEPT ![g] = x]
      BY <2>3 DEF Wait
    <3>2. gpc[g] = "wait" /\ UNCHANGED <<life, spc, alive, hold, written, lost>>
      BY <2>3 DEF Wait
    <3> QED
      BY <3>1, <3>2
  <2>4. CASE WaitTimesOut(g)
    BY <2>4 DEF WaitTimesOut
  <2>5. CASE Ping(g)
    BY <2>5 DEF Ping
  <2> QED
    BY <1>3, <2>1, <2>2, <2>3, <2>4, <2>5
<1>4. ASSUME NEW g \in Streams, TakeFrame(g) PROVE Types' /\ Holding'
  <2>1. Head(queue) \in Frames
    BY <1>4, HeadIsNext DEF TakeFrame
  <2> QED
    BY <1>4, <2>1 DEF TakeFrame
<1>5. ASSUME NEW g \in Streams, Write(g) PROVE Types' /\ Holding'
  <2>1. PICK f \in Frames : hold[g] = <<f>>
    BY <1>5 DEF Write
  <2>2. <<f>> \in Seq(Frames) /\ hold[g][1] = f
    BY <2>1
  <2>3. written[g] \o <<f>> \in Seq(Frames)
    <3>1. written[g] \in Seq(Frames)
      OBVIOUS
    <3> HIDE DEF TypeInv, Types, Holding
    <3> QED
      BY <2>2, <3>1
  <2>4. CASE alive[g]
    <3>1. written' = [written EXCEPT ![g] = @ \o <<f>>] /\ UNCHANGED lost
      BY <1>5, <2>1, <2>4 DEF Write
    <3>2. gpc' = [gpc EXCEPT ![g] = "provide"] /\ hold' = [hold EXCEPT ![g] = <<>>]
          /\ UNCHANGED <<life, spc, alive>>
      BY <1>5, <2>4 DEF Write
    <3>3. written' \in [Streams -> Seq(Frames)]
      BY <2>3, <3>1
    <3>4. gpc' \in [Streams -> {"idle", "provide", "wait", "asleep", "write", "ping",
                               "done"}]
      BY <3>2
    <3>5. DOMAIN hold' = Streams /\ hold' = [s \in Streams |-> hold'[s]] /\ Holding'
      BY <3>2
    <3>6. UNCHANGED <<life, spc, alive, lost>>
      BY <3>1, <3>2
    <3> HIDE DEF Holding
    <3> QED
      BY <3>3, <3>4, <3>5, <3>6
  <2>5. CASE ~alive[g]
    <3>1. lost' = lost \cup {f} /\ UNCHANGED written
      BY <1>5, <2>2, <2>5 DEF Write
    <3>2. gpc' = [gpc EXCEPT ![g] = "done"] /\ hold' = [hold EXCEPT ![g] = <<>>]
          /\ UNCHANGED <<life, spc, alive>>
      BY <1>5, <2>5 DEF Write
    <3>3. gpc' \in [Streams -> {"idle", "provide", "wait", "asleep", "write", "ping",
                               "done"}]
      BY <3>2
    <3>4. DOMAIN hold' = Streams /\ hold' = [s \in Streams |-> hold'[s]] /\ Holding'
      BY <3>2
    <3>5. lost' \in SUBSET Frames /\ UNCHANGED <<life, spc, alive, written>>
      BY <3>1, <3>2
    <3> HIDE DEF Holding
    <3> QED
      BY <3>3, <3>4, <3>5, SMT
  <2> QED
    BY <2>4, <2>5
<1>6. ASSUME NEW g \in Streams, HangUp(g) PROVE Types' /\ Holding'
  BY <1>6 DEF HangUp
<1>7. CASE Unlist \/ End
  BY <1>7 DEF Unlist, End, Close, CloseNotify, RunReturns, Notified
<1>8. CASE UNCHANGED vars
  BY <1>8 DEF vars
<1> QED
  BY <1>1, <1>2, <1>3, <1>4, <1>5, <1>6, <1>7, <1>8 DEF Next, Send, Handle

LEMMA TypeInvariance == Spec => []TypeInv
<1>1. Init => Types /\ Holding
  BY DEF Init, Types, Holding
<1> QED
  BY <1>1, TypeStep, Invariance, PTL DEF Spec, TypeInv

\* Each thread, connection and queue is in one of its states.
THEOREM TypeCorrect == Spec => []TypeOK
<1>1. TypeInv => TypeOK
  <2> SUFFICES ASSUME TypeInv PROVE TypeOK
    OBVIOUS
  <2>1. pushed \in Seq(Frames)
    BY DEF TypeInv, Ordered
  <2>2. \A g \in Streams : hold[g] \in UNION {[1 .. n -> Frames] : n \in 0 .. 1}
    <3> SUFFICES ASSUME NEW g \in Streams
                 PROVE  \E n \in 0 .. 1 : hold[g] \in [1 .. n -> Frames]
      OBVIOUS
    <3>1. CASE hold[g] = <<>>
      <4>1. hold[g] \in [1 .. 0 -> Frames]
        BY <3>1
      <4> QED
        BY <4>1
    <3>2. ASSUME NEW f \in Frames, hold[g] = <<f>>
          PROVE \E n \in 0 .. 1 : hold[g] \in [1 .. n -> Frames]
      <4>1. hold[g] \in [1 .. 1 -> Frames]
        BY <3>2
      <4> QED
        BY <4>1
    <3> QED
      BY <3>1, <3>2 DEF TypeInv, Holding
  <2> QED
    BY <2>1, <2>2 DEF TypeInv, Ordered, Types, TypeOK
<1> QED
  BY <1>1, TypeInvariance, PTL

------------------------------------------------------------------------------
(* Each frame is in one place *)

Waits(f) == \E i : At(queue, f) = {i}
Absent(f) == At(queue, f) = {}
Free(f) == \A g \in Streams : hold[g] # <<f>>
HandsOf(f) == \E g \in Streams : HeldBy(f) = {g}
Unwritten(f) == \A g \in Streams : At(written[g], f) = {}
OnceWritten(f) ==
  \E g \in Streams : /\ \E i : At(written[g], f) = {i}
                     /\ \A h \in Streams \ {g} : At(written[h], f) = {}

\* A frame is nowhere until send() accepts it, and then in one place.
Placed(f) ==
  IF spc[f] # "sent" THEN Absent(f) /\ Free(f) /\ Unwritten(f) /\ f \notin lost
  ELSE \/ Waits(f) /\ Free(f) /\ Unwritten(f) /\ f \notin lost
       \/ Absent(f) /\ HandsOf(f) /\ Unwritten(f) /\ f \notin lost
       \/ Absent(f) /\ Free(f) /\ OnceWritten(f) /\ f \notin lost
       \/ Absent(f) /\ Free(f) /\ Unwritten(f) /\ f \in lost

Accepted == \A f \in Elements(pushed) : spc[f] = "sent"
OnceInv == Accepted /\ \A f \in Frames : Placed(f)

LEMMA AtAppend ==
  ASSUME NEW q \in Seq(Frames), NEW f \in Frames, NEW k \in Frames
  PROVE  At(Append(q, f), k) =
           IF k = f THEN At(q, k) \cup {Len(q) + 1} ELSE At(q, k)
BY DEF At

LEMMA ElementsAppend ==
  ASSUME NEW q \in Seq(Frames), NEW f \in Frames
  PROVE  Elements(Append(q, f)) = Elements(q) \cup {f}
<1>1. /\ DOMAIN Append(q, f) = DOMAIN q \cup {Len(q) + 1}
      /\ \A i \in DOMAIN q : Append(q, f)[i] = q[i]
      /\ Append(q, f)[Len(q) + 1] = f
  OBVIOUS
<1> QED
  BY <1>1 DEF Elements

LEMMA AtTail ==
  ASSUME NEW q \in Seq(Frames), q # <<>>, NEW k \in Frames
  PROVE  At(Tail(q), k) = {i \in 1 .. Len(q) - 1 : i + 1 \in At(q, k)}
BY DEF At

\* What becomes of the places when the head of the queue is taken.
LEMMA AtHead ==
  ASSUME NEW q \in Seq(Frames), q # <<>>, NEW k \in Frames
  PROVE  /\ At(q, k) = {} => At(Tail(q), k) = {} /\ k # Head(q)
         /\ \A i : At(q, k) = {i} =>
              IF k = Head(q) THEN At(Tail(q), k) = {} ELSE At(Tail(q), k) = {i - 1}
<1>1. 1 \in At(q, k) <=> k = Head(q)
  BY DEF At
<1>2. At(q, k) \subseteq 1 .. Len(q)
  BY DEF At
<1>3. At(Tail(q), k) = {i \in 1 .. Len(q) - 1 : i + 1 \in At(q, k)}
  BY AtTail
<1>4. Len(q) \in Nat
  OBVIOUS
<1> HIDE DEF At
<1>5. At(q, k) = {} => At(Tail(q), k) = {} /\ k # Head(q)
  BY <1>1, <1>3
<1>6. ASSUME NEW i, At(q, k) = {i}
      PROVE  IF k = Head(q) THEN At(Tail(q), k) = {} ELSE At(Tail(q), k) = {i - 1}
  <2>1. i \in 1 .. Len(q)
    BY <1>2, <1>6
  <2>2. CASE k = Head(q)
    <3>1. i = 1
      BY <1>1, <1>6, <2>2
    <3>2. \A j \in 1 .. Len(q) - 1 : j + 1 # i
      BY <1>4, <3>1
    <3>3. At(Tail(q), k) = {}
      BY <1>3, <1>6, <3>2
    <3> QED
      BY <2>2, <3>3
  <2>3. CASE k # Head(q)
    <3>1. i # 1
      BY <1>1, <1>6, <2>3
    <3>2. i - 1 \in 1 .. Len(q) - 1 /\ (i - 1) + 1 = i
      BY <1>4, <2>1, <3>1
    <3>3. \A j \in 1 .. Len(q) - 1 : j + 1 = i => j = i - 1
      BY <1>4, <2>1
    <3>4. At(Tail(q), k) = {i - 1}
      BY <1>3, <1>6, <3>2, <3>3
    <3> QED
      BY <2>3, <3>4
  <2> QED
    BY <2>2, <2>3
<1> QED
  BY <1>5, <1>6

LEMMA PlacedStep ==
  ASSUME TypeInv, OnceInv, [Next]_vars
  PROVE  OnceInv'
<1> USE DEF frameVars, queueVars, getVars
<1>0. /\ queue \in Seq(Frames) /\ pushed \in Seq(Frames)
      /\ spc \in [Frames -> {"idle", "session", "open", "sent", "refused"}]
      /\ \A g \in Streams : written[g] \in Seq(Frames)
      /\ written \in [Streams -> Seq(Frames)]
      /\ hold = [g \in Streams |-> hold[g]]
  BY DEF TypeInv, Ordered, Types
<1>1. ASSUME NEW f \in Frames, Offer(f) \/ SendCheck(f) PROVE OnceInv'
  <2>1. \A k \in Frames : spc'[k] = "sent" <=> spc[k] = "sent"
    BY <1>0, <1>1 DEF Offer, SendCheck
  <2>2. UNCHANGED <<queue, hold, written, lost, pushed>>
    BY <1>1 DEF Offer, SendCheck
  <2>3. \A k \in Elements(pushed) : k \in Frames
    BY <1>0 DEF Elements
  <2>4. Accepted'
    BY <2>1, <2>2, <2>3 DEF OnceInv, Accepted
  <2>5. ASSUME NEW k \in Frames PROVE Placed(k)'
    BY <2>1, <2>2 DEF OnceInv, Placed, Waits, Absent, Free, HandsOf, HeldBy,
      Unwritten, OnceWritten
  <2> QED
    BY <2>4, <2>5 DEF OnceInv
<1>2. ASSUME NEW f \in Frames, Push(f) PROVE OnceInv'
  <2>1. /\ spc[f] = "open" /\ spc' = [spc EXCEPT ![f] = "sent"]
        /\ queue' = Append(queue, f) /\ pushed' = Append(pushed, f)
        /\ UNCHANGED <<hold, written, lost>>
    BY <1>2 DEF Push
  <2>2. Elements(pushed') = Elements(pushed) \cup {f}
    BY <1>0, <2>1, ElementsAppend
  <2>3. Elements(pushed) \subseteq Frames
    BY <1>0 DEF Elements
  <2>4. Accepted'
    BY <1>0, <2>1, <2>2, <2>3 DEF OnceInv, Accepted
  <2>5. ASSUME NEW k \in Frames PROVE Placed(k)'
    <3>1. UNCHANGED <<Free(k), HandsOf(k), Unwritten(k), OnceWritten(k)>>
      BY <2>1 DEF Free, HandsOf, HeldBy, Unwritten, OnceWritten
    <3>2. Placed(k)
      BY DEF OnceInv
    <3>3. CASE k = f
      <4>1. At(queue', k) = At(queue, k) \cup {Len(queue) + 1}
        BY <1>0, <2>1, <3>3, AtAppend
      <4>2. Absent(k) /\ Free(k) /\ Unwritten(k) /\ k \notin lost
        BY <2>1, <3>2, <3>3 DEF Placed
      <4>3. Waits(k)'
        BY <4>1, <4>2 DEF Waits, Absent
      <4>4. spc'[k] = "sent"
        BY <1>0, <2>1, <3>3
      <4> QED
        BY <2>1, <3>1, <4>2, <4>3, <4>4 DEF Placed
    <3>4. CASE k # f
      <4>1. At(queue', k) = At(queue, k)
        BY <1>0, <2>1, <3>4, AtAppend
      <4>2. UNCHANGED <<Absent(k), Waits(k)>>
        BY <4>1 DEF Absent, Waits
      <4>3. spc'[k] = spc[k]
        BY <1>0, <2>1, <3>4
      <4> QED
        BY <2>1, <3>1, <3>2, <4>2, <4>3 DEF Placed
    <3> QED
      BY <3>3, <3>4
  <2> QED
    BY <2>4, <2>5 DEF OnceInv
<1>3. ASSUME NEW g \in Streams, TakeFrame(g) PROVE OnceInv'
  <2> DEFINE f == Head(queue)
  <2>1. /\ gpc[g] = "wait" /\ queue # <<>>
        /\ hold' = [hold EXCEPT ![g] = <<f>>] /\ queue' = Tail(queue)
        /\ UNCHANGED <<spc, pushed, written, lost>>
    BY <1>3 DEF TakeFrame
  <2>2. f \in Frames
    BY <1>0, <2>1
  <2>3. hold[g] = <<>>
    BY <2>1 DEF TypeInv, Holding
  <2> HIDE DEF f
  <2>4. ASSUME NEW k \in Frames PROVE Placed(k)'
    <3>1. Placed(k)
      BY DEF OnceInv
    <3>2. UNCHANGED <<Unwritten(k), OnceWritten(k), spc[k], k \in lost>>
      BY <2>1 DEF Unwritten, OnceWritten
    <3>3. CASE k = f
      <4>1. Waits(k) /\ Free(k) /\ Unwritten(k) /\ k \notin lost /\ spc[k] = "sent"
        BY <1>0, <2>1, <3>1, <3>3, AtHead DEF Placed, Absent, f
      <4>2. Absent(k)'
        BY <1>0, <2>1, <3>3, <4>1, AtHead DEF Waits, Absent, f
      <4>3. HeldBy(k)' = {g}
        BY <1>0, <2>1, <3>3, <4>1 DEF HeldBy, Free
      <4> QED
        BY <3>2, <4>1, <4>2, <4>3 DEF Placed, HandsOf
    <3>4. CASE k # f
      <4>1. /\ Absent(k) => Absent(k)'
            /\ Waits(k) => Waits(k)'
        <5>1. At(queue, k) = {} => At(queue', k) = {}
          BY <1>0, <2>1, AtHead
        <5>2. \A i : At(queue, k) = {i} => At(queue', k) = {i - 1}
          BY <1>0, <2>1, <3>4, AtHead DEF f
        <5> QED
          BY <5>1, <5>2 DEF Waits, Absent
      <4>2. <<f>> # <<k>> /\ <<>> # <<k>>
        BY <3>4
      <4>3. HeldBy(k)' = HeldBy(k)
        BY <1>0, <2>1, <2>3, <4>2 DEF HeldBy
      <4>4. /\ Free(k) => Free(k)'
            /\ HandsOf(k) => HandsOf(k)'
        BY <4>3 DEF HeldBy, Free, HandsOf
      <4> QED
        BY <3>1, <3>2, <4>1, <4>4 DEF Placed
    <3> QED
      BY <3>3, <3>4
  <2> QED
    BY <2>1, <2>4 DEF OnceInv, Accepted
<1>4. ASSUME NEW g \in Streams, Write(g) PROVE OnceInv'
  <2>1. PICK f \in Frames : hold[g] = <<f>>
    BY <1>4 DEF TypeInv, Holding, Write
  <2>2. /\ hold' = [hold EXCEPT ![g] = <<>>]
        /\ UNCHANGED <<spc, pushed, queue>>
        /\ \/ /\ written' = [written EXCEPT ![g] = Append(@, f)]
              /\ UNCHANGED lost
           \/ /\ lost' = lost \cup {f}
              /\ UNCHANGED written
    <3>1. written[g] \o <<f>> = Append(written[g], f) /\ hold[g][1] = f
      BY <1>0, <2>1
    <3> QED
      BY <1>4, <2>1, <3>1 DEF Write
  <2>3. ASSUME NEW k \in Frames PROVE Placed(k)'
    <3>1. Placed(k)
      BY DEF OnceInv
    <3>2. UNCHANGED <<Absent(k), Waits(k), spc[k]>>
      BY <2>2 DEF Absent, Waits
    <3>3. CASE k = f
      <4>1. /\ Absent(k) /\ HandsOf(k) /\ Unwritten(k) /\ k \notin lost
            /\ spc[k] = "sent"
        BY <2>1, <3>1, <3>3 DEF Placed, Free
      <4>2. HeldBy(k) = {g}
        BY <2>1, <3>3, <4>1 DEF HandsOf, HeldBy
      <4>3. Free(k)'
        <5>1. <<>> # <<k>>
          OBVIOUS
        <5> QED
          BY <1>0, <2>2, <4>2, <5>1 DEF Free, HeldBy
      <4>4. CASE written' = [written EXCEPT ![g] = Append(@, f)] /\ UNCHANGED lost
        <5>1. At(written'[g], k) = {Len(written[g]) + 1}
          BY <1>0, <3>3, <4>1, <4>4, AtAppend DEF Unwritten
        <5>2. \A h \in Streams \ {g} : At(written'[h], k) = {}
          BY <1>0, <4>1, <4>4 DEF Unwritten
        <5>3. OnceWritten(k)'
          BY <5>1, <5>2 DEF OnceWritten
        <5> QED
          BY <3>2, <4>1, <4>3, <4>4, <5>3 DEF Placed
      <4>5. CASE lost' = lost \cup {f} /\ UNCHANGED written
        <5>1. Unwritten(k)'
          BY <4>1, <4>5 DEF Unwritten
        <5> QED
          BY <3>2, <3>3, <4>1, <4>3, <4>5, <5>1 DEF Placed
      <4> QED
        BY <2>2, <4>4, <4>5
    <3>4. CASE k # f
      <4>1. <<f>> # <<k>> /\ <<>> # <<k>>
        BY <3>4
      <4>2. HeldBy(k)' = HeldBy(k)
        BY <1>0, <2>1, <2>2, <4>1 DEF HeldBy
      <4>3. UNCHANGED <<Free(k), HandsOf(k)>>
        BY <4>2 DEF HeldBy, Free, HandsOf
      <4>4. ASSUME NEW h \in Streams PROVE At(written'[h], k) = At(written[h], k)
        <5>1. CASE written'[h] = written[h]
          BY <5>1
        <5>2. CASE written'[h] = Append(written[h], f)
          <6>1. At(Append(written[h], f), k) = At(written[h], k)
            BY <1>0, <3>4, AtAppend
          <6> QED
            BY <5>2, <6>1
        <5> QED
          BY <1>0, <2>2, <5>1, <5>2
      <4>5. Unwritten(k)' <=> Unwritten(k)
        BY <4>4 DEF Unwritten
      <4>6. OnceWritten(k)' <=> OnceWritten(k)
        BY <4>4 DEF OnceWritten
      <4>7. k \in lost' <=> k \in lost
        BY <2>2, <3>4
      <4> QED
        BY <3>1, <3>2, <4>3, <4>5, <4>6, <4>7 DEF Placed
    <3> QED
      BY <3>3, <3>4
  <2> QED
    BY <2>2, <2>3 DEF OnceInv, Accepted
<1>5. CASE UNCHANGED <<spc, queue, pushed, hold, written, lost>>
  BY <1>5 DEF OnceInv, Accepted, Placed, Waits, Absent, Free, HandsOf, HeldBy,
    Unwritten, OnceWritten
<1> QED
  BY <1>1, <1>2, <1>3, <1>4, <1>5 DEF Next, Send, Handle, End, Open, Provide,
    Wait, WaitTimesOut, Ping, HangUp, Unlist, Close, CloseNotify, RunReturns,
    vars

\* A frame that send() has accepted is in one place.
LEMMA OnePlace ==
  ASSUME TypeInv, OnceInv
  PROVE  EachOnce
<1> SUFFICES ASSUME NEW f \in Elements(pushed)
             PROVE  Cardinality(At(queue, f)) + Cardinality(HeldBy(f))
                      + Cardinality(WrittenAt(f)) + Cardinality(lost \cap {f}) = 1
  BY DEF EachOnce
<1>1. f \in Frames /\ spc[f] = "sent" /\ Placed(f)
  <2>1. pushed \in Seq(Frames)
    BY DEF TypeInv, Ordered
  <2> QED
    BY <2>1 DEF OnceInv, Accepted, Elements
<1>2. Absent(f) => Cardinality(At(queue, f)) = 0
  BY FS_EmptySet DEF Absent
<1>3. Waits(f) => Cardinality(At(queue, f)) = 1
  BY FS_Singleton DEF Waits
<1>4. Free(f) => Cardinality(HeldBy(f)) = 0
  <2>1. Free(f) => HeldBy(f) = {}
    BY DEF Free, HeldBy
  <2> QED
    BY <2>1, FS_EmptySet
<1>5. HandsOf(f) => Cardinality(HeldBy(f)) = 1
  BY FS_Singleton DEF HandsOf
<1>6. Unwritten(f) => Cardinality(WrittenAt(f)) = 0
  <2>1. Unwritten(f) => WrittenAt(f) = {}
    BY DEF Unwritten, WrittenAt
  <2> QED
    BY <2>1, FS_EmptySet
<1>7. OnceWritten(f) => Cardinality(WrittenAt(f)) = 1
  <2>1. ASSUME OnceWritten(f) PROVE \E x : WrittenAt(f) = {x}
    <3>1. PICK g \in Streams : /\ \E i : At(written[g], f) = {i}
                              /\ \A h \in Streams \ {g} : At(written[h], f) = {}
      BY <2>1 DEF OnceWritten
    <3>2. PICK i : At(written[g], f) = {i}
      BY <3>1
    <3>3. WrittenAt(f) = {<<g, i>>}
      BY <3>1, <3>2 DEF WrittenAt
    <3> QED
      BY <3>3
  <2> QED
    BY <2>1, FS_Singleton
<1>8. f \notin lost => Cardinality(lost \cap {f}) = 0
  <2>1. f \notin lost => lost \cap {f} = {}
    OBVIOUS
  <2> QED
    BY <2>1, FS_EmptySet
<1>9. f \in lost => Cardinality(lost \cap {f}) = 1
  <2>1. f \in lost => lost \cap {f} = {f}
    OBVIOUS
  <2> QED
    BY <2>1, FS_Singleton
<1> QED
  BY <1>1, <1>2, <1>3, <1>4, <1>5, <1>6, <1>7, <1>8, <1>9 DEF Placed

\* A frame that send() has accepted is in the queue, in the hands of one GET,
\* written once by one GET, or lost with a connection, and in one place only.
THEOREM NoneTwice == Spec => []EachOnce
<1>1. Init => OnceInv
  BY DEF Init, OnceInv, Accepted, Elements, Placed, Absent, Free, Unwritten, At
<1> QED
  BY <1>1, TypeInvariance, PlacedStep, OnePlace, PTL DEF Spec

------------------------------------------------------------------------------
(* The refinement *)

LEMMA ChannelInit == Init => ToClient!Init
BY DEF Init, ToClient!Init, Lines

\* An accepted frame is put into the channel.
LEMMA PushPuts ==
  ASSUME Ordered, NEW f \in Frames, Push(f)
  PROVE  ToClient!Next
<1>1. pushed \in Seq(Frames)
  BY DEF Ordered
<1>2. Lines(pushed') = Append(Lines(pushed), <<f>>)
  BY <1>1, LinesOfAppend DEF Push
<1>3. <<>> \o <<f>> = <<f>> /\ <<f>> # <<>>
  OBVIOUS
<1>4. taken' = taken
  BY DEF Push
<1>5. ToClient!Put(<<f>>)
  BY <1>2, <1>3, <1>4 DEF ToClient!Put, Whole
<1> QED
  BY <1>5 DEF ToClient!Next

\* A frame that a GET takes is the next of the channel.
LEMMA TakeFrameTakes ==
  ASSUME Ordered, NEW g \in Streams, TakeFrame(g)
  PROVE  ToClient!Next
<1>1. pushed \in Seq(Frames) /\ taken \in Seq(Frames)
  BY DEF Ordered
<1>2. queue # <<>> /\ taken' = Append(taken, Head(queue)) /\ pushed' = pushed
  BY DEF TakeFrame
<1>3. Lines(taken') = Append(Lines(taken), <<Head(queue)>>)
  BY <1>1, <1>2, HeadIsNext, LinesOfAppend
<1>4. Len(Lines(taken)) = Len(taken) /\ Len(Lines(pushed)) = Len(pushed)
  BY <1>1, LinesAt
<1>5. Len(taken) + 1 \in 1 .. Len(pushed) /\ pushed[Len(taken) + 1] = Head(queue)
  BY <1>1, <1>2, HeadIsNext
<1>6. Lines(pushed)[Len(Lines(taken)) + 1] = <<Head(queue)>>
  BY <1>1, <1>4, <1>5, LinesAt
<1>7. ToClient!Take
  BY <1>2, <1>3, <1>4, <1>5, <1>6 DEF ToClient!Take
<1> QED
  BY <1>7 DEF ToClient!Next

LEMMA ChannelStep ==
  ASSUME Ordered, [Next]_vars
  PROVE  [ToClient!Next]_<<Lines(pushed), <<>>, Lines(taken)>>
<1> USE DEF frameVars, queueVars, getVars
<1>1. CASE UNCHANGED queueVars
  BY <1>1
<1> QED
  BY <1>1, PushPuts, TakeFrameTakes DEF Next, Send, Handle, End, Offer,
    SendCheck, Open, Provide, Wait, WaitTimesOut, Ping, Write, HangUp, Unlist,
    Close, CloseNotify, RunReturns, vars

\* However many GETs of a session compete for its queue, they take the frames in
\* the order in which send() accepted them, each once: HttpStream implements
\* FrameChannel.
THEOREM StreamIsChannel == Spec => OneChannel
BY ChannelInit, ChannelStep, Invariance, PTL DEF Spec, OneChannel, ToClient!Spec
=============================================================================
