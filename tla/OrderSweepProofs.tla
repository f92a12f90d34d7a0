---- MODULE OrderSweepProofs ----
\* Proofs about OrderSweep: that a close hits no workload, and that a scan
\* skips nothing.  The invariant says nothing of the batch but its head:
\* what SelectSeq returns is defined by recursion.
EXTENDS OrderSweep, SequenceTheorems, TLAPS

Decision == [dseq: Dseq, status: OrderStatus]

\* The world's part of the state, and the fields of the sweeper's.
Typed ==
    /\ listing \in Seq(Dseq)
    /\ fate \in [Dseq -> Fate]
    /\ opened \in [Dseq -> Nat]
    /\ clock \in Nat
    /\ sweep.phase \in {"idle", "scan", "close"}
    /\ sweep.listed \in Nat /\ sweep.skip \in Nat
    /\ sweep.todo \in Seq(Dseq)
    /\ sweep.decisions \in Seq(Decision)
    /\ sweep.granted \in BOOLEAN

\* How many deployments the scan has decided, and how many of the page are left.
Decided == Len(sweep.decisions)
Waiting == Len(sweep.todo)

\* Decisions and what is left of the page are a prefix of the listing, and the last
\* page reaches what was listed when the scan began.
Scanned ==
    /\ sweep.listed <= Len(listing)
    /\ sweep.phase # "scan" => sweep.todo = <<>>
    /\ sweep.phase = "scan" =>
          /\ Decided + Waiting = sweep.skip
          /\ sweep.skip <= Len(listing)
          /\ \A i \in 1 .. Decided : sweep.decisions[i].dseq = listing[i]
          /\ \A i \in 1 .. Waiting :
                sweep.todo[i] = listing[Decided + i]
          /\ sweep.last => sweep.listed <= sweep.skip

\* No lease can come to a deployment any more, and the policy does not protect it.
Leaseless(d) ==
    /\ d \in Dseq
    /\ d \notin Protected \cup Excluded
    /\ fate[d] \notin {"leased", "absent"}
    /\ clock > opened[d] + BidWindow

Granted ==
    /\ sweep.phase # "close" => sweep.batch = <<>> /\ ~sweep.granted
    /\ sweep.granted => Leaseless(Head(sweep.batch).dseq)

Inv == Typed /\ Scanned /\ ScanComplete /\ Granted /\ NeverClosesWorkload

----
\* The policy.

\* evaluate_order always answers with one of its statuses.
LEMMA Evaluated == ASSUME NEW obs PROVE EvaluateOrder(obs) \in OrderStatus
  BY DEF EvaluateOrder, OrderStatus

\* A reading that lets a close go ahead is of a deployment that can no longer be
\* leased: of the lease count only an honest instrument is believed, and the age
\* floor is twice the bid window.
LEMMA CloseableLeaseless ==
  ASSUME Typed, NEW d \in Dseq, NEW obs \in Readings(d), EvaluateOrder(obs) = "CLOSEABLE"
  PROVE  Leaseless(obs.dseq)
<1>1. /\ obs.dseq = d /\ fate[d] # "absent"
      /\ obs.evidence # "CONSOLE_LIST" =>
             obs.leases \in {{}, {IF fate[d] = "leased" THEN 1 ELSE 0}}
      /\ obs.age \in {{}, {Age(d)}}
  BY DEF Readings
<1>2. /\ obs.dseq \notin Protected \cup Excluded
      /\ MayAuthoriseClose(obs.evidence)
      /\ obs.leases = {0}
      /\ obs.age # {} /\ ~(\E a \in obs.age : a < MinAge)
  BY DEF EvaluateOrder
<1>3. fate[d] # "leased"
  BY <1>1, <1>2 DEF MayAuthoriseClose
<1>4. clock > opened[d] + BidWindow
  <2>1. ~(Age(d) < MinAge)
    BY <1>1, <1>2
  <2>2. BidWindow \in Nat \ {0} /\ clock \in Nat /\ opened[d] \in Nat
    BY SweepAssumption DEF Typed
  <2> QED
    BY <2>1, <2>2 DEF Age, MinAge
<1> QED
  BY <1>4, <1>3, <1>2, <1>1 DEF Leaseless

----
\* The invariant.
LEMMA Initial == Init => Inv
<1> SUFFICES ASSUME Init PROVE Inv
  OBVIOUS
<1>1. Typed
  BY DEF Init, Typed, NoSweep, Fate
<1>2. Scanned /\ ScanComplete /\ Granted /\ NeverClosesWorkload
  BY DEF Init, NoSweep, Decided, Waiting, Scanned, ScanComplete, Granted, NeverClosesWorkload
<1> QED
  BY <1>1, <1>2 DEF Inv

\* What the others do leaves the sweeper's part of the invariant alone, if it types,
\* lists at the end only and brings no lease to the leaseless.
LEMMA World ==
  ASSUME Inv, Typed', UNCHANGED <<swept, sweep>>,
         listing' = listing \/ (\E d \in Dseq : listing' = Append(listing, d)),
         \A d \in Dseq : Leaseless(d) => Leaseless(d)'
  PROVE  Inv'
<1>1. /\ listing \in Seq(Dseq) /\ Len(listing) \in Nat
      /\ sweep.listed \in Nat /\ sweep.skip \in Nat
      /\ sweep.todo \in Seq(Dseq) /\ sweep.decisions \in Seq(Decision)
  BY DEF Inv, Typed
<1>2. /\ Len(listing') \in Nat /\ Len(listing) <= Len(listing')
      /\ \A i \in 1 .. Len(listing) : listing'[i] = listing[i]
  <2>1. CASE listing' = listing
    BY <1>1, <2>1
  <2>2. ASSUME NEW d \in Dseq, listing' = Append(listing, d)
        PROVE  /\ Len(listing') \in Nat /\ Len(listing) <= Len(listing')
               /\ \A i \in 1 .. Len(listing) : listing'[i] = listing[i]
    BY <1>1, <2>2
  <2> QED
    BY <2>1, <2>2
<1>3. Scanned'
  <2>1. sweep'.listed <= Len(listing') /\ (sweep'.phase # "scan" => sweep'.todo = <<>>)
    BY <1>1, <1>2 DEF Inv, Scanned
  <2>2. ASSUME sweep.phase = "scan"
        PROVE  /\ Decided + Waiting = sweep.skip
               /\ sweep.skip <= Len(listing) /\ sweep.skip <= Len(listing')
               /\ sweep.last => sweep.listed <= sweep.skip
    <3>1. /\ Decided + Waiting = sweep.skip
          /\ sweep.skip <= Len(listing)
          /\ sweep.last => sweep.listed <= sweep.skip
      BY <2>2 DEF Inv, Scanned
    <3>2. sweep.skip <= Len(listing')
      BY <3>1, <1>2, <1>1
    <3> QED
      BY <3>1, <3>2
  <2>3. ASSUME sweep.phase = "scan", NEW i \in 1 .. Decided
        PROVE  sweep.decisions[i].dseq = listing'[i]
    <3>1. sweep.decisions[i].dseq = listing[i]
      BY <2>3 DEF Inv, Scanned
    <3>2. i \in 1 .. Len(listing)
      <4>1. Decided \in Nat /\ Waiting \in Nat
        BY <1>1 DEF Decided, Waiting
      <4> QED
        BY <4>1, <2>3, <2>2, <1>1
    <3> QED
      BY <3>2, <3>1, <1>2
  <2>4. ASSUME sweep.phase = "scan", NEW i \in 1 .. Waiting
        PROVE  sweep.todo[i] = listing'[Decided + i]
    <3>1. sweep.todo[i] = listing[Decided + i]
      BY <2>4 DEF Inv, Scanned
    <3>2. Decided + i \in 1 .. Len(listing)
      <4>1. Decided \in Nat /\ Waiting \in Nat
        BY <1>1 DEF Decided, Waiting
      <4> QED
        BY <4>1, <2>4, <2>2, <1>1
    <3> QED
      BY <3>2, <3>1, <1>2
  <2>5. Decided' = Decided /\ Waiting' = Waiting
    BY DEF Decided, Waiting
  <2> QED
    BY <2>5, <2>4, <2>3, <2>2, <2>1 DEF Scanned
<1>4. ScanComplete'
  BY <1>1, <1>2 DEF Inv, Scanned, ScanComplete
<1>5. Granted'
  BY DEF Inv, Granted, Leaseless
<1>6. NeverClosesWorkload'
  BY DEF Inv, NeverClosesWorkload
<1> QED
  BY <1>6, <1>5, <1>4, <1>3 DEF Inv

\* What the sweeper reads and decides changes nothing around it.
LEMMA Reading ==
  ASSUME Inv, UNCHANGED <<listing, fate, opened, swept, clock>>,
         sweep'.phase \in {"idle", "scan", "close"}, sweep'.listed \in Nat,
         sweep'.skip \in Nat, sweep'.todo \in Seq(Dseq),
         sweep'.decisions \in Seq(Decision), sweep'.granted \in BOOLEAN
  PROVE  Typed' /\ NeverClosesWorkload'
  BY DEF Inv, Typed, NeverClosesWorkload

LEMMA Fetching == Inv /\ FetchPage => Inv'
<1> SUFFICES ASSUME Inv, FetchPage PROVE Inv'
  OBVIOUS
<1>. DEFINE until == IF Len(listing) < sweep.skip + PageLimit THEN Len(listing)
                                                             ELSE sweep.skip + PageLimit
            page == SubSeq(listing, sweep.skip + 1, until)
            more == [phase |-> "scan", listed |-> sweep.listed, skip |-> until,
                     last |-> PageIsLast(page), todo |-> page,
                     decisions |-> sweep.decisions, batch |-> <<>>, granted |-> FALSE]
<1>1. /\ sweep' = more
      /\ sweep.phase = "scan" /\ sweep.todo = <<>>
      /\ UNCHANGED <<listing, fate, opened, swept, clock>>
  BY DEF FetchPage, Scanning
<1>2. /\ listing \in Seq(Dseq) /\ Len(listing) \in Nat
      /\ sweep.listed \in Nat /\ sweep.skip \in Nat /\ sweep.skip <= Len(listing)
      /\ sweep.listed <= Len(listing) /\ sweep.skip = Decided
      /\ sweep.decisions \in Seq(Decision)
      /\ PageLimit \in Nat \ {0}
  <2>1. Decided \in Nat /\ Waiting = 0
    BY <1>1 DEF Inv, Typed, Decided, Waiting
  <2> QED
    BY <1>1, <2>1, SweepAssumption DEF Inv, Typed, Scanned
<1>3. /\ until \in Nat /\ sweep.skip <= until /\ until <= Len(listing)
      /\ until < sweep.skip + PageLimit => until = Len(listing)
  BY <1>2
<1>. HIDE DEF until
<1>4. /\ page \in Seq(Dseq) /\ Len(page) = until - sweep.skip
      /\ \A i \in 1 .. Len(page) : page[i] = listing[sweep.skip + i]
  <2>1. /\ sweep.skip + 1 \in 1 .. Len(listing) + 1
        /\ until \in sweep.skip .. Len(listing)
    BY <1>2, <1>3
  <2>2. /\ sweep.skip + 1 \in Int /\ until \in Int
        /\ \A i \in (sweep.skip + 1) .. until : listing[i] \in Dseq
    BY <1>2, <1>3
  <2>3. /\ page \in Seq(Dseq)
        /\ Len(page) = IF sweep.skip + 1 <= until THEN until - (sweep.skip + 1) + 1 ELSE 0
        /\ \A i \in 1 .. until - (sweep.skip + 1) + 1 :
              page[i] = listing[sweep.skip + 1 + i - 1]
    BY <2>2, SubSeqProperties
  <2>4. Len(page) = until - sweep.skip
    <3>1. Len(page) = IF sweep.skip + 1 <= until THEN until - (sweep.skip + 1) + 1 ELSE 0
      BY <2>3
    <3> HIDE DEF page
    <3> QED
      BY <1>2, <1>3, <3>1
  <2>5. ASSUME NEW i \in 1 .. Len(page) PROVE page[i] = listing[sweep.skip + i]
    <3>1. /\ i \in 1 .. until - (sweep.skip + 1) + 1
          /\ sweep.skip + 1 + i - 1 = sweep.skip + i
      BY <2>4, <1>3, <1>2, SMTT(30)
    <3> QED
      BY <2>3, <3>1
  <2> QED
    BY <2>5, <2>4, <2>3
<1>. HIDE DEF page
<1>5. PageIsLast(page) => until = Len(listing)
  BY <1>4, <1>3, <1>2 DEF PageIsLast
<1>6. Typed' /\ NeverClosesWorkload'
  BY <1>4, <1>3, <1>2, <1>1, Reading
<1>7. Scanned'
  <2>1. \A i \in 1 .. Decided : sweep.decisions[i].dseq = listing[i]
    BY <1>1 DEF Inv, Scanned
  <2>2. Decided' = Decided /\ Waiting' = Len(page)
    BY <1>1 DEF Decided, Waiting
  <2>3. Decided' + Waiting' = sweep'.skip /\ sweep'.skip <= Len(listing')
    BY <2>2, <1>4, <1>3, <1>2, <1>1
  <2>4. sweep'.last => sweep'.listed <= sweep'.skip
    BY <1>5, <1>2, <1>1
  <2> QED
    BY <2>4, <2>3, <2>2, <2>1, <1>4, <1>2, <1>1 DEF Scanned
<1>8. ScanComplete' /\ Granted'
  BY <1>1 DEF ScanComplete, Granted
<1> QED
  BY <1>8, <1>7, <1>6 DEF Inv

LEMMA Inspecting ==
  ASSUME Inv, NEW d \in Dseq, NEW obs \in Readings(d), Inspect(obs)
  PROVE  Inv'
<1>. DEFINE decision == [dseq |-> obs.dseq, status |-> EvaluateOrder(obs)]
            seen == [phase |-> "scan", listed |-> sweep.listed, skip |-> sweep.skip,
                     last |-> sweep.last, todo |-> Tail(sweep.todo),
                     decisions |-> Append(sweep.decisions, decision), batch |-> <<>>,
                     granted |-> FALSE]
<1>1. /\ sweep' = seen
      /\ sweep.todo # <<>> /\ obs.dseq = Head(sweep.todo)
      /\ UNCHANGED <<listing, fate, opened, swept, clock>>
  BY DEF Inspect, Scanning
<1>2. /\ sweep.phase = "scan"
      /\ sweep.listed \in Nat /\ sweep.skip \in Nat
      /\ sweep.decisions \in Seq(Decision) /\ sweep.todo \in Seq(Dseq)
      /\ listing \in Seq(Dseq) /\ sweep.todo # <<>>
      /\ Waiting \in Nat \ {0} /\ Decided \in Nat
  BY <1>1 DEF Inv, Typed, Scanned, Decided, Waiting
<1>3. /\ sweep.listed <= Len(listing)
      /\ Decided + Waiting = sweep.skip
      /\ sweep.skip <= Len(listing)
      /\ \A i \in 1 .. Decided : sweep.decisions[i].dseq = listing[i]
      /\ \A i \in 1 .. Waiting : sweep.todo[i] = listing[Decided + i]
      /\ sweep.last => sweep.listed <= sweep.skip
  BY <1>2 DEF Inv, Scanned
<1>4. /\ decision.dseq = listing[Decided + 1]
      /\ decision.dseq \in Dseq
  BY <1>3, <1>2, <1>1
<1>5. decision \in Decision
  BY <1>4, Evaluated DEF Decision
<1>. HIDE DEF decision
<1>. DEFINE rest == Tail(sweep.todo)
            judged == Append(sweep.decisions, decision)
<1>6. /\ rest \in Seq(Dseq) /\ Len(rest) = Waiting - 1
      /\ \A i \in 1 .. Len(rest) : rest[i] = sweep.todo[i + 1]
  BY <1>2 DEF Waiting
<1>7. /\ judged \in Seq(Decision) /\ Len(judged) = Decided + 1
      /\ \A i \in 1 .. Decided : judged[i] = sweep.decisions[i]
      /\ judged[Decided + 1] = decision
  BY <1>2, <1>5 DEF Decided
<1>8. \A i \in 1 .. Len(judged) : judged[i].dseq = listing[i]
  <2>1. ASSUME NEW i \in 1 .. Len(judged) PROVE judged[i].dseq = listing[i]
    <3>1. CASE i \in 1 .. Decided
      BY <3>1, <1>7, <1>3
    <3>2. CASE i = Decided + 1
      BY <3>2, <1>7, <1>4
    <3> QED
      BY <3>2, <3>1, <1>7, <1>2
  <2> QED
    BY <2>1
<1>. HIDE DEF rest, judged
<1>9. \A i \in 1 .. Len(rest) : rest[i] = listing[Len(judged) + i]
  <2>1. ASSUME NEW i \in 1 .. Len(rest) PROVE rest[i] = listing[Len(judged) + i]
    <3>1. i + 1 \in 1 .. Waiting /\ rest[i] = sweep.todo[i + 1]
      BY <1>2, <1>6
    <3>2. sweep.todo[i + 1] = listing[Decided + (i + 1)]
      BY <1>3, <3>1
    <3>3. Decided + (i + 1) = Len(judged) + i
      <4>1. /\ Len(judged) = Decided + 1 /\ Decided \in Nat
            /\ i \in Nat
        BY <1>7, <1>6, <1>2
      <4> QED
        BY <4>1
    <3> QED
      BY <3>3, <3>2, <3>1
  <2> QED
    BY <2>1
<1>. /\ sweep'.phase = "scan" /\ sweep'.listed = sweep.listed /\ sweep'.skip = sweep.skip
     /\ sweep'.last = sweep.last /\ sweep'.todo = rest /\ sweep'.decisions = judged
     /\ sweep'.batch = <<>> /\ sweep'.granted = FALSE
  BY <1>1 DEF rest, judged
<1>10. Typed' /\ NeverClosesWorkload'
  BY <1>7, <1>6, <1>2, <1>1, Reading
<1>11. Scanned'
  <2>1. Len(judged) + Len(rest) = sweep.skip
    <3>1. /\ Decided \in Nat /\ Waiting \in Nat
          /\ Len(judged) = Decided + 1 /\ Len(rest) = Waiting - 1
          /\ Decided + Waiting = sweep.skip
      BY <1>7, <1>6, <1>3, <1>2
    <3> QED
      BY <3>1
  <2>2. Decided' = Len(judged) /\ Waiting' = Len(rest)
    BY DEF Decided, Waiting
  <2> QED
    BY <2>2, <2>1, <1>9, <1>8, <1>3, <1>1 DEF Scanned
<1>12. ScanComplete' /\ Granted'
  BY DEF ScanComplete, Granted
<1> QED
  BY <1>12, <1>11, <1>10 DEF Inv

LEMMA Selecting == Inv /\ Select => Inv'
<1> SUFFICES ASSUME Inv, Select PROVE Inv'
  OBVIOUS
<1>1. /\ sweep.phase = "scan" /\ sweep.todo = <<>> /\ sweep.last
      /\ sweep'.phase = "close" /\ sweep'.listed = sweep.listed /\ sweep'.skip = sweep.skip
      /\ sweep'.todo = <<>> /\ sweep'.decisions = sweep.decisions /\ sweep'.granted = FALSE
      /\ UNCHANGED <<listing, fate, opened, swept, clock>>
  BY DEF Select, Closing
<1>2. /\ sweep.listed \in Nat /\ sweep.skip \in Nat
      /\ sweep.decisions \in Seq(Decision)
      /\ sweep.listed <= Len(listing)
      /\ Decided = sweep.skip
      /\ \A i \in 1 .. Decided : sweep.decisions[i].dseq = listing[i]
      /\ sweep.listed <= sweep.skip
  <2>1. Decided \in Nat /\ Waiting = 0
    BY <1>1 DEF Inv, Typed, Decided, Waiting
  <2> QED
    BY <1>1, <2>1 DEF Inv, Typed, Scanned
<1>3. Typed' /\ NeverClosesWorkload'
  <2>1. sweep'.todo \in Seq(Dseq) /\ sweep'.granted \in BOOLEAN
    <3>1. <<>> \in Seq(Dseq)
      OBVIOUS
    <3> QED
      BY <1>1, <3>1
  <2>2. sweep'.listed \in Nat /\ sweep'.skip \in Nat /\ sweep'.decisions \in Seq(Decision)
    BY <1>1, <1>2
  <2> QED
    BY <2>2, <2>1, <1>1, Reading
<1>4. Scanned'
  BY <1>1, <1>2 DEF Scanned
<1>5. ScanComplete'
  <2>1. DOMAIN sweep.decisions = 1 .. Decided
    BY <1>2 DEF Decided
  <2>2. \A i \in 1 .. sweep.listed : i \in 1 .. Decided
    BY <1>2
  <2> QED
    BY <2>2, <2>1, <1>2, <1>1 DEF ScanComplete
<1>6. Granted'
  BY <1>1 DEF Granted
<1> QED
  BY <1>6, <1>5, <1>4, <1>3 DEF Inv

\* While it closes the sweeper keeps its decisions: only the world it leaves behind,
\* and what it grants, need looking at.
LEMMA Closed ==
  ASSUME Inv, sweep.phase = "close", UNCHANGED listing, Typed', Granted',
         NeverClosesWorkload', sweep'.phase = "close", sweep'.listed = sweep.listed,
         sweep'.todo = <<>>, sweep'.decisions = sweep.decisions
  PROVE  Inv'
<1>1. Scanned' /\ ScanComplete'
  BY DEF Inv, Scanned, ScanComplete
<1> QED
  BY <1>1 DEF Inv

LEMMA Confirming ==
  ASSUME Inv, NEW d \in Dseq, NEW fresh \in Readings(d), Confirm(fresh)
  PROVE  Inv'
<1>1. /\ \/ /\ EvaluateOrder(fresh) = "CLOSEABLE"
            /\ sweep' = Closing(sweep.batch, TRUE)
         \/ sweep' = Closing(Tail(sweep.batch), FALSE)
      /\ sweep.batch # <<>> /\ fresh.dseq = Head(sweep.batch).dseq
      /\ UNCHANGED <<listing, fate, opened, swept, clock>>
  BY DEF Confirm, ConfirmClose
<1>2. sweep.phase = "close"
  BY <1>1 DEF Inv, Granted
<1>3. /\ sweep'.phase = "close" /\ sweep'.listed = sweep.listed
      /\ sweep'.skip = sweep.skip /\ sweep'.todo = <<>>
      /\ sweep'.decisions = sweep.decisions /\ sweep'.granted \in BOOLEAN
      /\ sweep'.granted => /\ EvaluateOrder(fresh) = "CLOSEABLE"
                           /\ sweep'.batch = sweep.batch
  <2>1. CASE EvaluateOrder(fresh) = "CLOSEABLE" /\ sweep' = Closing(sweep.batch, TRUE)
    BY <2>1 DEF Closing
  <2>2. CASE sweep' = Closing(Tail(sweep.batch), FALSE)
    BY <2>2 DEF Closing
  <2> QED
    BY <2>2, <2>1, <1>1
<1>4. /\ sweep.listed \in Nat /\ sweep.skip \in Nat
      /\ sweep.decisions \in Seq(Decision)
  BY DEF Inv, Typed
<1>5. Typed' /\ NeverClosesWorkload'
  BY <1>4, <1>3, <1>1, Reading
<1>6. Granted'
  <2>1. ASSUME sweep'.granted PROVE Leaseless(Head(sweep.batch).dseq)
    BY <2>1, <1>3, <1>1, CloseableLeaseless DEF Inv
  <2> QED
    BY <2>1, <1>3, <1>1 DEF Granted, Leaseless
<1> QED
  BY <1>6, <1>5, <1>3, <1>2, <1>1, Closed

LEMMA ClosingOne == Inv /\ Close => Inv'
<1> SUFFICES ASSUME Inv, Close PROVE Inv'
  OBVIOUS
<1>. DEFINE d == Head(sweep.batch).dseq
<1>1. /\ sweep.granted
      /\ swept' = swept \cup {[dseq |-> d, was |-> fate[d]]}
      /\ fate' = [fate EXCEPT ![d] = "closed"]
      /\ sweep' = Closing(Tail(sweep.batch), FALSE)
      /\ UNCHANGED <<listing, opened, clock>>
  BY DEF Close
<1>2. sweep.phase = "close" /\ Leaseless(d)
  BY <1>1 DEF Inv, Granted
<1>. HIDE DEF d
<1>3. NeverClosesWorkload'
  BY <1>1, <1>2 DEF Inv, NeverClosesWorkload, Leaseless
<1>4. /\ sweep'.phase = "close" /\ sweep'.listed = sweep.listed
      /\ sweep'.skip = sweep.skip /\ sweep'.todo = <<>>
      /\ sweep'.decisions = sweep.decisions /\ sweep'.granted = FALSE
  BY <1>1 DEF Closing
<1>5. Typed'
  <2>1. fate' \in [Dseq -> Fate]
    BY <1>1 DEF Inv, Typed, Fate
  <2>2. /\ sweep.listed \in Nat /\ sweep.skip \in Nat /\ sweep.decisions \in Seq(Decision)
        /\ listing \in Seq(Dseq) /\ opened \in [Dseq -> Nat] /\ clock \in Nat
    BY DEF Inv, Typed
  <2>3. <<>> \in Seq(Dseq)
    OBVIOUS
  <2>4. listing' \in Seq(Dseq) /\ opened' \in [Dseq -> Nat] /\ clock' \in Nat
    BY <1>1, <2>2
  <2>5. /\ sweep'.listed \in Nat /\ sweep'.skip \in Nat /\ sweep'.todo \in Seq(Dseq)
        /\ sweep'.decisions \in Seq(Decision)
    BY <2>3, <2>2, <1>4
  <2>6. sweep'.phase \in {"idle", "scan", "close"} /\ sweep'.granted \in BOOLEAN
    BY <1>4
  <2> QED
    BY <2>6, <2>5, <2>4, <2>1 DEF Typed
<1>6. Granted'
  BY <1>4 DEF Granted
<1> QED
  BY <1>6, <1>5, <1>4, <1>3, <1>2, <1>1, Closed

LEMMA Steps == Inv /\ [Next]_vars => Inv'
<1> SUFFICES ASSUME Inv, [Next]_vars PROVE Inv'
  OBVIOUS
<1>1. CASE StartScan
  <2>1. /\ sweep' = Scanning(Len(listing), 0, FALSE, <<>>, <<>>)
        /\ UNCHANGED <<listing, fate, opened, swept, clock>>
    BY <1>1 DEF StartScan
  <2>2. listing \in Seq(Dseq)
    BY DEF Inv, Typed
  <2>3. Typed' /\ NeverClosesWorkload'
    BY <2>1, <2>2, Reading DEF Scanning
  <2>4. Scanned' /\ ScanComplete' /\ Granted'
    BY <2>1, <2>2 DEF Scanning, Scanned, ScanComplete, Granted, Decided, Waiting
  <2> QED
    BY <2>3, <2>4 DEF Inv
<1>2. CASE Finish \/ Crash
  <2>1. sweep' = NoSweep /\ UNCHANGED <<listing, fate, opened, swept, clock>>
    BY <1>2 DEF Finish, Crash
  <2>2. Typed' /\ NeverClosesWorkload'
    BY <2>1, Reading DEF NoSweep
  <2>3. Scanned' /\ ScanComplete' /\ Granted'
    BY <2>1 DEF Inv, Typed, NoSweep, Scanned, ScanComplete, Granted
  <2> QED
    BY <2>2, <2>3 DEF Inv
<1>3. CASE Tick
  <2>1. Typed' /\ UNCHANGED <<swept, sweep, listing>>
    BY <1>3 DEF Tick, Inv, Typed
  <2>2. \A d \in Dseq : Leaseless(d) => Leaseless(d)'
    BY <1>3, SweepAssumption DEF Tick, Inv, Typed, Leaseless
  <2> QED
    BY <2>1, <2>2, World
<1>4. ASSUME NEW d \in Dseq, OpenOrder(d)
      PROVE  Inv'
  <2>1. Typed'
    BY <1>4 DEF OpenOrder, Inv, Typed, Fate
  <2>2. UNCHANGED <<swept, sweep>> /\ listing' = Append(listing, d)
    BY <1>4 DEF OpenOrder
  <2>3. \A x \in Dseq : Leaseless(x) => Leaseless(x)'
    BY <1>4 DEF OpenOrder, Inv, Typed, Leaseless
  <2> QED
    BY <2>3, <2>2, <2>1, World
<1>5. ASSUME NEW d \in Dseq, TakeLease(d)
      PROVE  Inv'
  <2>1. Typed' /\ UNCHANGED <<swept, sweep, listing>>
    BY <1>5 DEF TakeLease, Inv, Typed, Fate
  <2>2. ~Leaseless(d)
    BY <1>5, SweepAssumption DEF TakeLease, Age, Inv, Typed, Leaseless
  <2>3. \A x \in Dseq : Leaseless(x) => Leaseless(x)'
    BY <1>5, <2>2 DEF TakeLease, Inv, Typed, Leaseless
  <2> QED
    BY <2>1, <2>3, World
<1>6. ASSUME NEW d \in Dseq, EndLease(d) \/ TenantCloses(d)
      PROVE  Inv'
  <2>1. Typed' /\ UNCHANGED <<swept, sweep, listing>>
    BY <1>6 DEF EndLease, TenantCloses, Inv, Typed, Fate
  <2>2. \A x \in Dseq : Leaseless(x) => Leaseless(x)'
    BY <1>6 DEF EndLease, TenantCloses, Inv, Typed, Leaseless
  <2> QED
    BY <2>1, <2>2, World
<1>7. CASE Settle \/ UNCHANGED vars
  <2>1. UNCHANGED <<listing, fate, opened, swept, sweep, clock>>
    BY <1>7 DEF Settle, vars
  <2>2. Typed' /\ (\A x \in Dseq : Leaseless(x) => Leaseless(x)')
    BY <2>1 DEF Inv, Typed, Leaseless
  <2> QED
    BY <2>1, <2>2, World
<1> QED
  BY <1>7, <1>6, <1>5, <1>4, <1>3, <1>2, <1>1, Fetching, Inspecting, Selecting, Confirming,
     ClosingOne DEF Next

\* The invariant holds in every reachable state, however many deployments there are
\* and whatever the page size, the batch size and the bid window.
THEOREM Invariance == Spec => []Inv
  BY Initial, Steps, PTL DEF Spec

\* orders.py:373 confirms and closes in two steps: no lease can be taken between
\* them, or between the scan and the close.
THEOREM NoWorkloadClosed == Spec => []NeverClosesWorkload
<1>1. Inv => NeverClosesWorkload
  BY DEF Inv
<1> QED
  BY <1>1, Invariance, PTL

\* orders.py:411 ends a scan on a short page only: by then every deployment that was
\* listed at its start has a decision.
THEOREM NothingSkipped == Spec => []ScanComplete
<1>1. Inv => ScanComplete
  BY DEF Inv
<1> QED
  BY <1>1, Invariance, PTL

====
