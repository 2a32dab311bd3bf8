------------------------- MODULE JsonServer_proofs -------------------------
(***************************************************************************)
(* Proofs about the request limit of JsonServer, for every limit and every *)
(* length of the minute.  An entry of the limiter is seen as a ledger of   *)
(* what its connection got through: exactly request_count since the window *)
(* began, the first of them at that very time, and less than a full limit  *)
(* in the minute before.                                                   *)
(***************************************************************************)
EXTENDS JsonServer, FiniteSetTheorems, WellFoundedInduction, TLAPS

Since(times, t) == {i \in DOMAIN times : times[i] >= t}
Count(times, t) == Cardinality(Since(times, t))

Ledger(times, entry) ==
  /\ \A i \in DOMAIN times : times[i] < entry.last_reset + Minute
  /\ Count(times, entry.last_reset) = entry.request_count
  /\ Count(times, entry.last_reset + 1) < entry.request_count
  /\ Count(times, entry.last_reset - Minute + 1)
       < RequestsPerMinute + entry.request_count

(* A window that begins with the input now read.                           *)
Begins(times, entry) ==
  /\ entry = Fresh
  /\ \A i \in DOMAIN times : times[i] < now
  /\ Count(times, now - Minute + 1) < RequestsPerMinute

Entry == [last_reset : 0..now, request_count : 0..RequestsPerMinute]

(* A connection without an entry has not got anything through yet.         *)
Books == /\ DOMAIN rates \subseteq open
         /\ \A fd \in open \ DOMAIN rates : handled[fd] = <<>>
         /\ \A fd \in DOMAIN rates : Ledger(handled[fd], rates[fd])

IInv == TypeOK /\ Books

-----------------------------------------------------------------------------
(* A set of naturals with a member has a least one.                        *)
LEMMA LeastElement ==
  ASSUME NEW T \in SUBSET Nat, T # {}
  PROVE  \E m \in T : \A k \in T : m <= k
<1> DEFINE R == OpToRel(<, Nat)
<1>1. IsWellFoundedOn(R, Nat)
  BY NatLessThanWellFounded
<1>2. PICK m \in T : \A k \in T : ~ (<<k, m>> \in R)
  <2> HIDE DEF R
  <2> QED
    BY <1>1, WFMin
<1>3. ASSUME NEW k \in T PROVE m <= k
  <2>1. SUFFICES ASSUME k < m PROVE FALSE
    OBVIOUS
  <2>2. <<k, m>> \in R
    BY <2>1 DEF OpToRel
  <2> QED
    BY <1>2, <2>2
<1> QED
  BY <1>3

(* Counting.                                                               *)
LEMMA CountFact ==
  ASSUME NEW times \in Seq(Nat), NEW t \in Int
  PROVE  IsFiniteSet(Since(times, t)) /\ Count(times, t) \in Nat
<1>1. Len(times) \in Nat /\ DOMAIN times = 1..Len(times)
  OBVIOUS
<1>2. IsFiniteSet(1..Len(times))
  BY <1>1, FS_Interval
<1>3. Since(times, t) \subseteq 1..Len(times)
  BY <1>1 DEF Since
<1>4. IsFiniteSet(Since(times, t))
  BY <1>2, <1>3, FS_Subset
<1> QED
  BY <1>4, FS_CardinalityType DEF Count

LEMMA CountBound ==
  ASSUME NEW times \in Seq(Nat), NEW t \in Int
  PROVE  Count(times, t) <= Len(times)
<1>1. Len(times) \in Nat /\ DOMAIN times = 1..Len(times)
  OBVIOUS
<1>2. IsFiniteSet(1..Len(times)) /\ Cardinality(1..Len(times)) = Len(times)
  <2> DEFINE n == Len(times)
  <2>1. 1 \in Int /\ n \in Int
    BY <1>1
  <2> HIDE DEF n
  <2>2. /\ IsFiniteSet(1..n)
        /\ Cardinality(1..n) = IF 1 > n THEN 0 ELSE n - 1 + 1
    BY <2>1, FS_Interval
  <2>3. n \in Nat
    BY <1>1 DEF n
  <2> QED
    BY <2>2, <2>3 DEF n
<1>3. Since(times, t) \subseteq 1..Len(times)
  BY <1>1 DEF Since
<1> QED
  BY <1>2, <1>3, FS_Subset DEF Count

LEMMA CountMonotone ==
  ASSUME NEW times \in Seq(Nat), NEW t \in Int, NEW u \in Int, t <= u
  PROVE  Count(times, u) <= Count(times, t)
<1>1. Since(times, u) \subseteq Since(times, t)
  <2>1. \A i \in DOMAIN times : times[i] \in Nat
    OBVIOUS
  <2> QED
    BY <2>1 DEF Since
<1> QED
  BY <1>1, CountFact, FS_Subset DEF Count

LEMMA CountAppend ==
  ASSUME NEW times \in Seq(Nat), NEW t \in Int, NEW n \in Nat, t <= n
  PROVE  Count(Append(times, n), t) = Count(times, t) + 1
<1> DEFINE new == Len(times) + 1
<1>1. /\ Len(times) \in Nat /\ DOMAIN times = 1..Len(times)
      /\ DOMAIN Append(times, n) = 1..new
      /\ Append(times, n)[new] = n
      /\ \A i \in 1..Len(times) : Append(times, n)[i] = times[i]
  OBVIOUS
<1>2. new \notin Since(times, t)
  BY <1>1 DEF Since
<1>3. Since(Append(times, n), t) = Since(times, t) \union {new}
  BY <1>1 DEF Since
<1> QED
  BY <1>2, <1>3, CountFact, FS_AddElement DEF Count

LEMMA CountNone ==
  ASSUME NEW times \in Seq(Nat), NEW t \in Int, \A i \in DOMAIN times : times[i] < t
  PROVE  Count(times, t) = 0
<1>1. Since(times, t) = {}
  <2>1. \A i \in DOMAIN times : times[i] \in Nat
    OBVIOUS
  <2> QED
    BY <2>1 DEF Since
<1> QED
  BY <1>1, FS_EmptySet DEF Count

-----------------------------------------------------------------------------
(* The window in force when an input is read: after check_rate_limit has   *)
(* renewed it, the window is not over, and it either begins or has a right *)
(* ledger.                                                                 *)
LEMMA RenewedFact ==
  ASSUME IInv, NEW fd \in open
  PROVE  /\ Renewed(fd) \in Entry
         /\ Ledger(handled[fd], Renewed(fd)) \/ Begins(handled[fd], Renewed(fd))
         /\ now < Renewed(fd).last_reset + Minute
<1> DEFINE times == handled[fd]
<1>0. /\ now \in Nat /\ Minute \in Nat /\ Minute > 0
      /\ RequestsPerMinute \in Nat /\ RequestsPerMinute > 0
  BY JsonServerAssumption DEF IInv, TypeOK
<1>1. times \in Seq(Nat)
  <2>1. times \in Seq(0..now)
    BY DEF IInv, TypeOK
  <2> QED
    BY <2>1, <1>0
<1>2. Fresh \in Entry /\ now < Fresh.last_reset + Minute
  BY <1>0 DEF Fresh, Entry
<1> HIDE DEF times
<1>3. CASE fd \notin DOMAIN rates
  <2>1. Renewed(fd) = Fresh
    BY <1>3 DEF Renewed
  <2>2. \A i \in DOMAIN times : FALSE
    BY <1>3 DEF IInv, Books, times
  <2>3. Count(times, now - Minute + 1) = 0
    BY <1>0, <1>1, <2>2, CountNone
  <2> QED
    BY <1>0, <1>2, <2>1, <2>2, <2>3 DEF Begins, times
<1>4. CASE fd \in DOMAIN rates /\ now - rates[fd].last_reset >= Minute
  <2> DEFINE old == rates[fd].last_reset
  <2>1. Renewed(fd) = Fresh
    BY <1>4 DEF Renewed
  <2>2. old \in 0..now /\ rates[fd].request_count \in 0..RequestsPerMinute
    BY <1>4 DEF IInv, TypeOK
  <2>3. /\ \A i \in DOMAIN times : times[i] < old + Minute
        /\ Count(times, old + 1) < rates[fd].request_count
    BY <1>4 DEF IInv, Books, Ledger, times
  <2>4. \A i \in DOMAIN times : times[i] < now
    BY <1>0, <1>1, <1>4, <2>2, <2>3
  <2>5. old + 1 <= now - Minute + 1 /\ old + 1 \in Int /\ now - Minute + 1 \in Int
    BY <1>0, <1>4, <2>2
  <2> HIDE DEF old
  <2>6. /\ Count(times, now - Minute + 1) <= Count(times, old + 1)
        /\ Count(times, now - Minute + 1) \in Nat /\ Count(times, old + 1) \in Nat
    BY <1>1, <2>5, CountMonotone, CountFact
  <2> QED
    BY <1>0, <1>2, <2>1, <2>2, <2>3, <2>4, <2>6 DEF Begins, times
<1>5. CASE fd \in DOMAIN rates /\ ~ (now - rates[fd].last_reset >= Minute)
  <2>1. Renewed(fd) = rates[fd]
    BY <1>5 DEF Renewed
  <2>2. rates[fd] \in Entry
    BY <1>5 DEF IInv, TypeOK, Entry
  <2>3. Ledger(times, rates[fd])
    BY <1>5 DEF IInv, Books, times
  <2>4. now < rates[fd].last_reset + Minute
    BY <1>0, <1>5, <2>2 DEF Entry
  <2> QED
    BY <2>1, <2>2, <2>3, <2>4 DEF times
<1> QED
  BY <1>3, <1>4, <1>5

(* Letting a request through enters it into the ledger.                    *)
LEMMA LedgerAppend ==
  ASSUME IInv, NEW times \in Seq(0..now), NEW entry \in Entry,
         Ledger(times, entry) \/ Begins(times, entry),
         now < entry.last_reset + Minute
  PROVE  Ledger(Append(times, now), [entry EXCEPT !.request_count = @ + 1])
<1> DEFINE reset == entry.last_reset
           count == entry.request_count
           next == [entry EXCEPT !.request_count = @ + 1]
           longer == Append(times, now)
<1>0. /\ now \in Nat /\ Minute \in Nat /\ Minute > 0 /\ RequestsPerMinute \in Nat
      /\ reset \in 0..now /\ count \in 0..RequestsPerMinute
  BY JsonServerAssumption DEF IInv, TypeOK, Entry
<1>1. next.last_reset = reset /\ next.request_count = count + 1
  BY DEF Entry
<1>2. /\ reset \in Int /\ reset + 1 \in Int /\ reset - Minute + 1 \in Int
      /\ reset <= now /\ reset - Minute + 1 <= now
  BY <1>0
<1>3. times \in Seq(Nat) /\ \A i \in DOMAIN times : times[i] \in 0..now
  BY <1>0
<1>4. /\ \A i \in DOMAIN times : times[i] < reset + Minute
      /\ Count(times, reset) = count
      /\ Count(times, reset - Minute + 1) < RequestsPerMinute + count
      /\ reset < now => Count(times, reset + 1) < count
  <2>1. CASE Ledger(times, entry)
    BY <2>1 DEF Ledger
  <2>2. CASE Begins(times, entry)
    <3>1. /\ reset = now /\ count = 0 /\ \A i \in DOMAIN times : times[i] < now
          /\ Count(times, now - Minute + 1) < RequestsPerMinute
      BY <2>2 DEF Begins, Fresh
    <3>2. Count(times, now) = 0
      BY <1>0, <1>3, <3>1, CountNone
    <3> QED
      BY <1>0, <3>1, <3>2
  <2> QED
    BY <2>1, <2>2
<1> HIDE DEF reset, count, next, longer
<1>5. longer \in Seq(Nat) /\ \A i \in DOMAIN longer : longer[i] < reset + Minute
  <2>1. now < reset + Minute
    BY DEF reset
  <2> QED
    BY <1>0, <1>3, <1>4, <2>1 DEF longer
<1>6. Count(longer, reset) = count + 1
  BY <1>0, <1>2, <1>3, <1>4, CountAppend DEF longer
<1>7. Count(longer, reset - Minute + 1) < RequestsPerMinute + (count + 1)
  <2>1. Count(longer, reset - Minute + 1) = Count(times, reset - Minute + 1) + 1
    BY <1>0, <1>2, <1>3, CountAppend DEF longer
  <2>2. Count(times, reset - Minute + 1) \in Nat
    BY <1>2, <1>3, CountFact
  <2> QED
    BY <1>0, <1>4, <2>1, <2>2
<1>8. Count(longer, reset + 1) < count + 1
  <2>1. CASE reset < now
    <3>1. Count(longer, reset + 1) = Count(times, reset + 1) + 1
      BY <1>0, <1>2, <1>3, <2>1, CountAppend DEF longer
    <3>2. Count(times, reset + 1) \in Nat
      BY <1>2, <1>3, CountFact
    <3> QED
      BY <1>0, <1>4, <2>1, <3>1, <3>2
  <2>2. CASE reset = now
    <3>1. \A i \in DOMAIN longer : longer[i] < reset + 1
      BY <1>0, <1>3, <2>2 DEF longer
    <3>2. Count(longer, reset + 1) = 0
      BY <1>2, <1>5, <3>1, CountNone
    <3> QED
      BY <1>0, <3>2
  <2> QED
    BY <1>0, <2>1, <2>2
<1>9. Ledger(longer, next)
  BY <1>1, <1>5, <1>6, <1>7, <1>8 DEF Ledger
<1> QED
  BY <1>9 DEF next, longer

-----------------------------------------------------------------------------
LEMMA InitIInv == Init => IInv
<1> SUFFICES ASSUME Init PROVE IInv
  OBVIOUS
<1>1. TypeOK
  <2>1. rates \in [DOMAIN rates -> [last_reset : 0..now, request_count : 0..RequestsPerMinute]]
        /\ DOMAIN rates = {}
    BY DEF Init
  <2>2. handled \in [Fd -> Seq(0..now)]
    BY DEF Init
  <2>3. now \in 0..LastTick
    BY JsonServerAssumption DEF Init
  <2> QED
    BY <2>1, <2>2, <2>3 DEF Init, TypeOK, NoReply
<1>2. Books
  BY DEF Init, Books
<1> QED
  BY <1>1, <1>2 DEF IInv

(* The two ways the limiter's table and the open descriptors change.       *)
LEMMA CloseFact ==
  ASSUME IInv, NEW fd \in open, Close(fd), UNCHANGED now,
         handled' \in [Fd -> Seq(0..now)],
         \A f \in Fd \ {fd} : handled'[f] = handled[f],
         reply'.status \in {"none", "text", "success", "error"}
  PROVE  IInv'
<1>1. /\ open' = open \ {fd} /\ DOMAIN rates' = DOMAIN rates \ {fd}
      /\ \A f \in DOMAIN rates' : rates'[f] = rates[f]
      /\ rates' = [f \in DOMAIN rates' |-> rates'[f]]
  BY DEF Close
<1>2. \A f \in DOMAIN rates : rates[f] \in [last_reset : 0..now, request_count : 0..RequestsPerMinute]
  BY DEF IInv, TypeOK
<1>3. rates' \in [DOMAIN rates' -> [last_reset : 0..now, request_count : 0..RequestsPerMinute]]
  BY <1>1, <1>2
<1>4. TypeOK'
  BY <1>1, <1>3 DEF IInv, TypeOK
<1>5. Books'
  <2>1. \A f \in open' : f # fd /\ f \in Fd /\ handled'[f] = handled[f]
    BY <1>1 DEF IInv, TypeOK
  <2>2. \A f \in DOMAIN rates' : f \in open' /\ f \in DOMAIN rates
    BY <1>1 DEF IInv, Books
  <2>3. \A f \in open' \ DOMAIN rates' : handled'[f] = <<>>
    BY <1>1, <2>1 DEF IInv, Books
  <2>4. \A f \in DOMAIN rates' : Ledger(handled'[f], rates'[f])
    BY <1>1, <2>1, <2>2 DEF IInv, Books
  <2> QED
    BY <2>2, <2>3, <2>4 DEF Books, Ledger, Count, Since
<1> QED
  BY <1>4, <1>5 DEF IInv

LEMMA SetRateFact ==
  ASSUME IInv, NEW fd \in open, NEW entry \in Entry, SetRate(fd, entry),
         UNCHANGED <<open, now>>,
         handled' \in [Fd -> Seq(0..now)],
         \A f \in Fd \ {fd} : handled'[f] = handled[f],
         Ledger(handled'[fd], entry),
         reply'.status \in {"none", "text", "success", "error"}
  PROVE  IInv'
<1>1. /\ DOMAIN rates' = DOMAIN rates \union {fd}
      /\ rates'[fd] = entry
      /\ \A f \in DOMAIN rates : f # fd => rates'[f] = rates[f]
      /\ rates' = [f \in DOMAIN rates' |-> rates'[f]]
  BY DEF SetRate
<1>2. \A f \in DOMAIN rates : rates[f] \in [last_reset : 0..now, request_count : 0..RequestsPerMinute]
  BY DEF IInv, TypeOK
<1>3. rates' \in [DOMAIN rates' -> [last_reset : 0..now, request_count : 0..RequestsPerMinute]]
  BY <1>1, <1>2 DEF Entry
<1>4. fd \in Fd
  BY DEF IInv, TypeOK
<1>5. TypeOK'
  BY <1>1, <1>3, <1>4 DEF IInv, TypeOK
<1>6. Books'
  <2>1. DOMAIN rates' \subseteq open'
    BY <1>1 DEF IInv, Books
  <2>2. \A f \in open' \ DOMAIN rates' : handled'[f] = <<>>
    BY <1>1 DEF IInv, TypeOK, Books
  <2>3. \A f \in DOMAIN rates' : Ledger(handled'[f], rates'[f])
    <3>1. \A f \in DOMAIN rates \ {fd} : f \in Fd \ {fd} /\ Ledger(handled[f], rates[f])
      BY DEF IInv, TypeOK, Books
    <3> QED
      BY <1>1, <3>1
  <2> QED
    BY <2>1, <2>2, <2>3 DEF Books
<1> QED
  BY <1>5, <1>6 DEF IInv

(* A refusal leaves the ledger as it was: a window that begins is not full.*)
LEMMA FullLedger ==
  ASSUME IInv, NEW fd \in Fd, NEW input \in Input, RateExceeded(fd, input)
  PROVE  /\ fd \in open /\ Renewed(fd) \in Entry
         /\ Ledger(handled[fd], Renewed(fd))
         /\ now < Renewed(fd).last_reset + Minute
         /\ Renewed(fd).request_count >= RequestsPerMinute
<1>1. fd \in open /\ ~ WithinLimit(Renewed(fd))
  BY DEF RateExceeded, Read
<1>2. /\ Renewed(fd) \in Entry
      /\ Ledger(handled[fd], Renewed(fd)) \/ Begins(handled[fd], Renewed(fd))
      /\ now < Renewed(fd).last_reset + Minute
  BY <1>1, RenewedFact
<1>3. Renewed(fd).request_count \in Nat /\ RequestsPerMinute \in Nat /\ RequestsPerMinute > 0
  BY <1>2, JsonServerAssumption DEF Entry
<1>4. Renewed(fd).request_count >= RequestsPerMinute
  BY <1>1, <1>3 DEF WithinLimit
<1>5. ~ Begins(handled[fd], Renewed(fd))
  BY <1>3, <1>4 DEF Begins, Fresh
<1> QED
  BY <1>1, <1>2, <1>4, <1>5

LEMMA AnswerStatus ==
  ASSUME NEW input \in Input
  PROVE  Answer(input).status \in {"none", "text", "success", "error"}
<1>1. \A id, code : Failure(input, id, code).status = "error"
  BY DEF Failure
<1>2. Success(input).status = "success" /\ Text.status = "text"
  BY DEF Success, Text, NoReply
<1>3. ProcessJson(input).status \in {"success", "error"}
  BY <1>1, <1>2 DEF ProcessJson
<1>4. input.form \in {"text", "text exit", "broken JSON", "array", "object"}
  BY DEF Input
<1>5. CASE input.form \in {"array", "object"}
  BY <1>3, <1>5 DEF Answer
<1>6. CASE input.form = "broken JSON"
  BY <1>1, <1>6 DEF Answer
<1>7. CASE input.form \in {"text", "text exit"}
  BY <1>2, <1>7 DEF Answer
<1> QED
  BY <1>4, <1>5, <1>6, <1>7

LEMMA NextIInv == IInv /\ [Next]_vars => IInv'
<1> SUFFICES ASSUME IInv, [Next]_vars PROVE IInv'
  OBVIOUS
<1>1. CASE Accept
  <2> DEFINE fd == CHOOSE f \in Fd \ open : \A g \in Fd \ open : f <= g
  <2>1. /\ open' = open \union {fd} /\ handled' = [handled EXCEPT ![fd] = <<>>]
        /\ UNCHANGED <<rates, reply, now>>
    BY <1>1 DEF Accept
  <2>2. fd \in Fd \ open
    <3>1. Fd \ open \in SUBSET Nat /\ Fd \ open # {}
      BY <1>1, JsonServerAssumption DEF Accept, IInv, TypeOK
    <3>2. \E f \in Fd \ open : \A g \in Fd \ open : f <= g
      BY <3>1, LeastElement
    <3> QED
      BY <3>2
  <2> HIDE DEF fd
  <2>3. fd \notin DOMAIN rates
    BY <2>2 DEF IInv, Books
  <2>4. /\ handled' \in [Fd -> Seq(0..now)] /\ handled'[fd] = <<>>
        /\ \A f \in Fd \ {fd} : handled'[f] = handled[f]
    BY <2>1, <2>2 DEF IInv, TypeOK
  <2>5. TypeOK'
    BY <2>1, <2>2, <2>4 DEF IInv, TypeOK
  <2>6. Books'
    <3>1. \A f \in DOMAIN rates : f \in Fd \ {fd}
      BY <2>3 DEF IInv, TypeOK
    <3>2. \A f \in DOMAIN rates' : Ledger(handled'[f], rates'[f])
      BY <2>1, <2>4, <3>1 DEF IInv, Books
    <3>3. \A f \in open' \ DOMAIN rates' : handled'[f] = <<>>
      BY <2>1, <2>4 DEF IInv, TypeOK, Books
    <3> QED
      BY <2>1, <3>2, <3>3 DEF IInv, Books
  <2> QED
    BY <2>5, <2>6 DEF IInv
<1>2. ASSUME NEW fd \in Fd, Disconnected(fd) PROVE IInv'
  BY <1>2, CloseFact DEF Disconnected, IInv, TypeOK
<1>3. ASSUME NEW fd \in Fd, NEW input \in Input, TooLarge(fd, input) PROVE IInv'
  <2>1. UNCHANGED <<open, rates, handled, now>> /\ reply'.status = "error"
    BY <1>3 DEF TooLarge, Read, Failure
  <2> QED
    BY <2>1 DEF IInv, TypeOK, Books, Ledger, Count, Since
<1>4. ASSUME NEW fd \in Fd, NEW input \in Input, RateExceeded(fd, input) PROVE IInv'
  <2>1. /\ fd \in open /\ SetRate(fd, Renewed(fd))
        /\ UNCHANGED <<open, now>> /\ handled' = handled
        /\ reply'.status = "error"
    BY <1>4 DEF RateExceeded, Read, Failure
  <2>2. Renewed(fd) \in Entry /\ Ledger(handled[fd], Renewed(fd))
    BY <1>4, FullLedger
  <2>3. handled' \in [Fd -> Seq(0..now)]
    BY <2>1 DEF IInv, TypeOK
  <2> QED
    BY <2>1, <2>2, <2>3, SetRateFact
<1>5. ASSUME NEW fd \in Fd, NEW input \in Input, Handle(fd, input) PROVE IInv'
  <2> DEFINE entry == [Renewed(fd) EXCEPT !.request_count = @ + 1]
  <2>1. /\ fd \in open /\ UNCHANGED now
        /\ WithinLimit(Renewed(fd))
        /\ handled' = [handled EXCEPT ![fd] = Append(@, now)]
        /\ reply' = Answer(input)
        /\ (SetRate(fd, entry) /\ UNCHANGED open) \/ Close(fd)
    BY <1>5 DEF Handle, Read
  <2>2. reply'.status \in {"none", "text", "success", "error"}
    BY <2>1, AnswerStatus
  <2>3. /\ Renewed(fd) \in Entry
        /\ Ledger(handled[fd], Renewed(fd)) \/ Begins(handled[fd], Renewed(fd))
        /\ now < Renewed(fd).last_reset + Minute
    BY <2>1, RenewedFact
  <2>4. /\ handled' \in [Fd -> Seq(0..now)]
        /\ handled'[fd] = Append(handled[fd], now)
        /\ \A f \in Fd \ {fd} : handled'[f] = handled[f]
    <3>1. now \in 0..now /\ handled[fd] \in Seq(0..now)
      BY JsonServerAssumption DEF IInv, TypeOK
    <3> QED
      BY <2>1, <3>1 DEF IInv, TypeOK
  <2>5. entry \in Entry
    <3>1. /\ Renewed(fd).last_reset \in 0..now
          /\ Renewed(fd).request_count \in 0..RequestsPerMinute
          /\ Renewed(fd).request_count < RequestsPerMinute
      BY <2>1, <2>3 DEF Entry, WithinLimit
    <3>2. entry = [last_reset |-> Renewed(fd).last_reset,
                   request_count |-> Renewed(fd).request_count + 1]
      BY <2>3 DEF Entry
    <3> QED
      BY <3>1, <3>2, JsonServerAssumption DEF Entry
  <2>6. Ledger(handled'[fd], entry)
    <3>1. handled[fd] \in Seq(0..now)
      BY DEF IInv, TypeOK
    <3> QED
      BY <2>3, <2>4, <3>1, LedgerAppend
  <2> HIDE DEF entry
  <2>7. CASE SetRate(fd, entry) /\ UNCHANGED open
    BY <2>1, <2>2, <2>4, <2>5, <2>6, <2>7, SetRateFact
  <2>8. CASE Close(fd)
    BY <2>1, <2>2, <2>4, <2>8, CloseFact
  <2> QED
    BY <2>1, <2>7, <2>8
<1>6. CASE Tick
  <2>1. now' = now + 1 /\ now < LastTick /\ UNCHANGED <<open, rates, reply, handled>>
    BY <1>6 DEF Tick
  <2>2. now \in Nat /\ now' \in 0..LastTick
    BY <2>1, JsonServerAssumption DEF IInv, TypeOK
  <2>3. 0..now \subseteq 0..now'
    BY <2>1, <2>2
  <2>4. rates' \in [DOMAIN rates' -> [last_reset : 0..now', request_count : 0..RequestsPerMinute]]
    BY <2>1, <2>3 DEF IInv, TypeOK
  <2>5. handled' \in [Fd -> Seq(0..now')]
    <3>1. ASSUME NEW s \in Seq(0..now) PROVE s \in Seq(0..now')
      BY <2>1, <2>2
    <3> QED
      BY <2>1, <3>1 DEF IInv, TypeOK
  <2> QED
    BY <2>1, <2>2, <2>4, <2>5 DEF IInv, TypeOK, Books, Ledger, Count, Since
<1>7. CASE UNCHANGED vars
  BY <1>7 DEF vars, IInv, TypeOK, Books, Ledger, Count, Since
<1> QED
  BY <1>1, <1>2, <1>3, <1>4, <1>5, <1>6, <1>7 DEF Next

-----------------------------------------------------------------------------
THEOREM Invariance == Spec => []IInv
<1>1. IInv /\ UNCHANGED vars => IInv'
  BY NextIInv
<1> QED
  BY InitIInv, NextIInv, PTL DEF Spec

(* The limiter's table has the types of the code, and no count passes the  *)
(* limit.                                                                  *)
THEOREM TypeCorrect == Spec => []TypeOK
<1>1. IInv => TypeOK
  BY DEF IInv
<1> QED
  BY <1>1, Invariance, PTL

(* In no minute does a connection get twice the limit through: the last    *)
(* minute lies within the window and the minute before it, and excludes    *)
(* the request with which the window before began.                         *)
THEOREM LessThanTwice == Spec => []BelowTwiceTheLimit
<1>1. IInv => BelowTwiceTheLimit
  <2> SUFFICES ASSUME IInv, NEW fd \in open
               PROVE  Cardinality(Recent(fd)) < 2 * RequestsPerMinute
    BY DEF BelowTwiceTheLimit
  <2>1. /\ now \in Nat /\ Minute \in Nat
        /\ RequestsPerMinute \in Nat /\ RequestsPerMinute > 0
        /\ handled[fd] \in Seq(0..now)
    BY JsonServerAssumption DEF IInv, TypeOK
  <2>2. handled[fd] \in Seq(Nat)
    BY <2>1
  <2>3. Recent(fd) = Since(handled[fd], now - Minute + 1)
    BY <2>1, <2>2 DEF Recent, Since
  <2>4. CASE fd \notin DOMAIN rates
    <3>1. \A i \in DOMAIN handled[fd] : FALSE
      BY <2>4 DEF IInv, Books
    <3>2. Count(handled[fd], now - Minute + 1) = 0
      BY <2>1, <2>2, <3>1, CountNone
    <3> QED
      BY <2>1, <2>3, <3>2 DEF Count
  <2>5. CASE fd \in DOMAIN rates
    <3> DEFINE reset == rates[fd].last_reset
    <3>1. reset \in 0..now /\ rates[fd].request_count \in 0..RequestsPerMinute
      BY <2>5 DEF IInv, TypeOK
    <3>2. Count(handled[fd], reset - Minute + 1) < RequestsPerMinute + rates[fd].request_count
      BY <2>5 DEF IInv, Books, Ledger
    <3>3. /\ reset - Minute + 1 \in Int /\ now - Minute + 1 \in Int
          /\ reset - Minute + 1 <= now - Minute + 1
      BY <2>1, <3>1
    <3> HIDE DEF reset
    <3>4. /\ Count(handled[fd], now - Minute + 1) <= Count(handled[fd], reset - Minute + 1)
          /\ Count(handled[fd], now - Minute + 1) \in Nat
          /\ Count(handled[fd], reset - Minute + 1) \in Nat
      BY <2>2, <3>3, CountMonotone, CountFact
    <3> QED
      BY <2>1, <2>3, <3>1, <3>2, <3>4 DEF Count
  <2> QED
    BY <2>4, <2>5
<1> QED
  BY <1>1, Invariance, PTL

(* What the limiter remembers of a descriptor is about the connection that *)
(* is open on it, and no more than that connection got through.            *)
THEOREM EntriesOfTheOpen == Spec => []RatesOfTheOpen
<1>1. IInv => RatesOfTheOpen
  <2> SUFFICES ASSUME IInv, NEW fd \in DOMAIN rates
               PROVE  fd \in open /\ rates[fd].request_count <= Len(handled[fd])
    BY DEF RatesOfTheOpen
  <2>1. fd \in open
    BY DEF IInv, Books
  <2>2. /\ now \in Nat /\ rates[fd].last_reset \in 0..now
        /\ handled[fd] \in Seq(0..now)
    BY <2>1, JsonServerAssumption DEF IInv, TypeOK
  <2>3. handled[fd] \in Seq(Nat) /\ rates[fd].last_reset \in Int
    BY <2>2
  <2>4. Count(handled[fd], rates[fd].last_reset) = rates[fd].request_count
    BY DEF IInv, Books, Ledger
  <2> QED
    BY <2>1, <2>3, <2>4, CountBound
<1> QED
  BY <1>1, Invariance, PTL

(* Whoever is refused has used its limit up itself within the last minute. *)
THEOREM Refusals == Spec => RefusedForOwnRequests
<1>1. ASSUME IInv, NEW fd \in Fd, NEW input \in Input, RateExceeded(fd, input)
      PROVE  Cardinality(Recent(fd)) >= RequestsPerMinute
  <2> DEFINE entry == Renewed(fd)
  <2>1. /\ fd \in open /\ entry \in Entry /\ Ledger(handled[fd], entry)
        /\ now < entry.last_reset + Minute
        /\ entry.request_count >= RequestsPerMinute
    BY <1>1, FullLedger
  <2>2. /\ now \in Nat /\ Minute \in Nat /\ RequestsPerMinute \in Nat
        /\ handled[fd] \in Seq(0..now)
    BY <1>1, JsonServerAssumption DEF IInv, TypeOK
  <2>3. handled[fd] \in Seq(Nat)
    BY <2>2
  <2>4. Recent(fd) = Since(handled[fd], now - Minute + 1)
    BY <2>2, <2>3 DEF Recent, Since
  <2>5. /\ entry.last_reset \in Nat /\ entry.request_count \in Nat
        /\ entry.request_count >= RequestsPerMinute
        /\ Count(handled[fd], entry.last_reset) = entry.request_count
    BY <2>1, <2>2 DEF Entry, Ledger
  <2>6. now - Minute + 1 \in Int /\ now - Minute + 1 <= entry.last_reset
    BY <2>1, <2>2, <2>5
  <2> HIDE DEF entry
  <2>7. Count(handled[fd], entry.last_reset) <= Count(handled[fd], now - Minute + 1)
    <3>1. entry.last_reset \in Int
      BY <2>5
    <3> QED
      BY <2>3, <2>6, <3>1, CountMonotone
  <2>8. Count(handled[fd], now - Minute + 1) \in Nat
    BY <2>3, <2>6, CountFact
  <2> QED
    BY <2>2, <2>4, <2>5, <2>7, <2>8 DEF Count
<1>2. IInv /\ [Next]_vars =>
        [\A fd \in Fd :
           (reply'.code = 429 /\ \E input \in Input : RateExceeded(fd, input))
             => Cardinality(Recent(fd)) >= RequestsPerMinute]_vars
  BY <1>1
<1> QED
  BY <1>2, Invariance, PTL DEF Spec, RefusedForOwnRequests
=============================================================================
