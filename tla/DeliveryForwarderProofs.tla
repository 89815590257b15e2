---------------------- MODULE DeliveryForwarderProofs ----------------------
(* Proofs about DeliveryForwarder. *)
EXTENDS DeliveryForwarder, SequenceTheorems, TLAPS

USE ForwarderAssumption

-----------------------------------------------------------------------------
(* One scan of the log *)

\* A greatest element is the maximum.
LEMMA MaxIs ==
  ASSUME NEW S \in SUBSET Int, NEW m \in S, \A x \in S : m >= x
  PROVE  Max(S) = m
<1>1. Max(S) \in S /\ \A x \in S : Max(S) >= x
  BY DEF Max
<1>2. Max(S) \in Int /\ m \in Int /\ Max(S) >= m /\ m >= Max(S)
  BY <1>1
<1> QED
  BY <1>2

\* The listing starts with the latest delivery, and IDs descend along it.
LEMMA ListingIs ==
  ASSUME NEW r \in Rules, log \in [Rules -> Seq(1..MaxTime)]
  PROVE  /\ Len(Listing(r)) = Len(log[r])
         /\ \A j \in 1..Len(log[r]) :
               Listing(r)[j] = [id |-> Len(log[r]) - j + 1, at |-> log[r][Len(log[r]) - j + 1]]
<1> DEFINE n == Len(log[r])
           entries == [i \in 1..n |-> [id |-> i, at |-> log[r][i]]]
<1>1. n \in Nat /\ DOMAIN log[r] = 1..n
  OBVIOUS
<1>2. Len(entries) = n
  BY <1>1
<1>3. Listing(r) = [j \in 1..n |-> entries[n - j + 1]]
  BY <1>1, <1>2 DEF Listing, Reverse
<1>4. \A j \in 1..n : n - j + 1 \in 1..n
  BY <1>1
<1> HIDE DEF n, entries
<1>5. Len([j \in 1..n |-> entries[n - j + 1]]) = n
  BY <1>1
<1>6. \A j \in 1..n : entries[n - j + 1] = [id |-> n - j + 1, at |-> log[r][n - j + 1]]
  BY <1>4 DEF entries
<1> QED
  BY <1>3, <1>5, <1>6 DEF n

\* ... in particular the greater of two numbers.
LEMMA MaxOfTwo ==
  ASSUME NEW a \in Int, NEW b \in Int, b >= a
  PROVE  Max({a, b}) = b
<1> DEFINE S == {a, b}
<1>1. S \in SUBSET Int /\ b \in S /\ \A x \in S : b >= x
  OBVIOUS
<1> HIDE DEF S
<1>2. Max(S) = b
  BY <1>1, MaxIs
<1> QED
  BY <1>2 DEF S

LEMMA AdvancedNone ==
  ASSUME NEW listing, NEW pos \in Position
  PROVE  Advanced(listing, pos, 0) = pos
<1>1. {pos.at} \union {listing[i].at : i \in 1..0} = {pos.at}
  OBVIOUS
<1>2. {pos.id} \union {listing[i].id : i \in 1..0} = {pos.id}
  OBVIOUS
<1>3. Max({pos.at}) = pos.at /\ Max({pos.id}) = pos.id
  BY MaxIs DEF Position
<1>4. Advanced(listing, pos, 0) = [at |-> pos.at, id |-> pos.id]
  BY <1>1, <1>2, <1>3 DEF Advanced
<1> QED
  BY <1>4 DEF Position

LEMMA AdvancedOne ==
  ASSUME NEW listing, NEW pos \in Position,
         listing[1].at \in Nat, listing[1].id \in Nat,
         listing[1].at >= pos.at, listing[1].id >= pos.id
  PROVE  Advanced(listing, pos, 1) = [at |-> listing[1].at, id |-> listing[1].id]
<1>1. {listing[i].at : i \in 1..1} = {listing[1].at} /\ {listing[i].id : i \in 1..1} = {listing[1].id}
  OBVIOUS
<1>2. pos.at \in Int /\ pos.id \in Int
  BY DEF Position
<1>3. /\ Max({pos.at, listing[1].at}) = listing[1].at
      /\ Max({pos.id, listing[1].id}) = listing[1].id
  BY <1>2, MaxOfTwo
<1>4. /\ {pos.at} \union {listing[i].at : i \in 1..1} = {pos.at, listing[1].at}
      /\ {pos.id} \union {listing[i].id : i \in 1..1} = {pos.id, listing[1].id}
  BY <1>1
<1> QED
  BY <1>3, <1>4 DEF Advanced

Latest(r) == [id |-> Len(log[r]), at |-> log[r][Len(log[r])]]

\* A scan finds the latest delivery if the position is not past it, and nothing else: the
\* ones between the position and the latest delivery are skipped.
LEMMA ScanFindsLatest ==
  ASSUME NEW r \in Rules, log \in [Rules -> Seq(1..MaxTime)],
         NEW pos \in Position, pos.id <= Len(log[r])
  PROVE  Scan(Listing(r), pos) =
           IF Len(log[r]) = 0 \/ Processed(Latest(r), pos)
           THEN [found |-> <<>>, pos |-> pos]
           ELSE [found |-> <<Len(log[r])>>, pos |-> Latest(r)]
<1> DEFINE n == Len(log[r])
           L == Listing(r)
           New == {k \in 0..Len(L) : \A j \in 1..k : ~ Processed(L[j], Advanced(L, pos, j - 1))}
<1>0. n \in Nat /\ DOMAIN log[r] = 1..n /\ \A i \in 1..n : log[r][i] \in 1..MaxTime
  OBVIOUS
<1>1. /\ n \in Nat /\ Len(L) = n
      /\ \A j \in 1..n : L[j] = [id |-> n - j + 1, at |-> log[r][n - j + 1]]
  BY <1>0, ListingIs
<1>2. Advanced(L, pos, 0) = pos
  BY AdvancedNone
<1>3. Scan(L, pos) = [found |-> Reverse([j \in 1..Max(New) |-> L[j].id]),
                      pos |-> Advanced(L, pos, Max(New))]
  BY DEF Scan
<1> HIDE DEF L, n
<1>4. New \in SUBSET Int /\ 0 \in New
  BY <1>1
<1>5. CASE n = 0 \/ Processed(Latest(r), pos)
  <2>1. \A k \in New : k = 0
    <3> SUFFICES ASSUME NEW k \in New, k # 0 PROVE FALSE
      OBVIOUS
    <3>1. 1 \in 1..k /\ 1 \in 1..n /\ n # 0
      BY <1>1
    <3>2. ~ Processed(L[1], Advanced(L, pos, 1 - 1))
      BY <3>1
    <3>3. L[1] = Latest(r)
      BY <1>1, <3>1 DEF Latest, n
    <3> QED
      BY <1>2, <1>5, <3>1, <3>2, <3>3
  <2>2. Max(New) = 0
    <3> HIDE DEF New
    <3> QED
      BY <1>4, <2>1, MaxIs
  <2>3. Reverse([j \in 1..0 |-> L[j].id]) = <<>>
    BY DEF Reverse
  <2> QED
    BY <1>2, <1>3, <1>5, <2>2, <2>3 DEF L, n
<1>6. CASE n # 0 /\ ~ Processed(Latest(r), pos)
  <2>1. L[1] = Latest(r) /\ 1 \in 1..n
    BY <1>1, <1>6 DEF Latest, n
  <2>2. Latest(r).at \in Nat /\ Latest(r).id \in Nat
    BY <1>0, <1>1, <1>6 DEF Latest, n
  <2>3. Latest(r).at >= pos.at /\ Latest(r).id >= pos.id
    BY <1>1, <1>6, <2>2 DEF Latest, Processed, Position, n
  <2>4. Advanced(L, pos, 1) = Latest(r)
    BY <2>1, <2>2, <2>3, AdvancedOne DEF Latest
  <2>5. 1 \in New
    BY <1>1, <1>2, <1>6, <2>1
  <2>6. \A k \in New : k <= 1
    <3> SUFFICES ASSUME NEW k \in New, k > 1 PROVE FALSE
      BY <1>4
    <3>1. k \in 0..n /\ 2 \in 1..k /\ 2 \in 1..n
      BY <1>1
    <3>2. ~ Processed(L[2], Advanced(L, pos, 2 - 1))
      BY <3>1
    <3>3. L[2].id = n - 2 + 1
      BY <1>1, <3>1
    <3>4. L[2].id = n - 1 /\ Latest(r).id = n
      BY <1>1, <3>3 DEF Latest, n
    <3> QED
      BY <1>1, <1>6, <2>4, <3>2, <3>4 DEF Processed
  <2>7. Max(New) = 1
    <3> HIDE DEF New
    <3> QED
      BY <1>4, <2>5, <2>6, MaxIs
  <2>8. Reverse([j \in 1..1 |-> L[j].id]) = <<n>>
    <3>1. [j \in 1..1 |-> L[j].id] = <<n>>
      BY <2>1 DEF Latest, n
    <3> QED
      BY <3>1 DEF Reverse
  <2> QED
    BY <1>3, <1>6, <2>4, <2>7, <2>8 DEF L, n
<1> QED
  BY <1>5, <1>6 DEF n

-----------------------------------------------------------------------------
(* Type correctness *)

LEMMA TypeInit == Init => TypeOK
<1> SUFFICES ASSUME Init PROVE TypeOK
  OBVIOUS
<1>1. NoPosition \in Position /\ 1 \in 1..MaxTime /\ 0 \in 0..MaxTime
  BY DEF NoPosition, Position
<1>2. ToSet(<<>>) = {}
  BY DEF ToSet
<1> QED
  BY <1>1, <1>2 DEF Init, TypeOK, NoPosition

\* What a scan yields is a position, and a batch of deliveries in the log.
LEMMA ScanType ==
  ASSUME TypeOK, NEW r \in Rules, NEW s \in {Scan(Listing(r), cur[r])}
  PROVE  /\ s.pos \in Position /\ s.pos.id \in 0..Len(log[r])
         /\ s.found \in Seq(Nat) /\ ToSet(s.found) \subseteq DOMAIN log[r]
<1> DEFINE n == Len(log[r])
<1>1. n \in Nat /\ DOMAIN log[r] = 1..n /\ \A i \in 1..n : log[r][i] \in 1..MaxTime
  BY SMTT(30) DEF TypeOK
<1>2. cur[r] \in Position /\ cur[r].id \in 0..n
  BY DEF TypeOK
<1>3. s = IF n = 0 \/ Processed(Latest(r), cur[r])
          THEN [found |-> <<>>, pos |-> cur[r]]
          ELSE [found |-> <<n>>, pos |-> Latest(r)]
  <2>1. log \in [Rules -> Seq(1..MaxTime)] /\ cur[r].id <= Len(log[r])
    BY <1>1, <1>2 DEF TypeOK
  <2> QED
    BY <1>2, <2>1, ScanFindsLatest
<1>4. n # 0 => Latest(r) \in Position /\ Latest(r).id = n
  BY <1>1 DEF Latest, Position
<1>5. ToSet(<<>>) = {} /\ ToSet(<<n>>) = {n}
  BY DEF ToSet
<1>6. CASE n = 0 \/ Processed(Latest(r), cur[r])
  BY <1>2, <1>3, <1>5, <1>6
<1>7. CASE ~(n = 0 \/ Processed(Latest(r), cur[r]))
  <2>1. s.pos = Latest(r) /\ s.found = <<n>>
    BY <1>3, <1>7
  <2> QED
    BY <1>1, <1>4, <1>5, <1>7, <2>1
<1> QED
  BY <1>6, <1>7

LEMMA BatchFacts ==
  ASSUME NEW s \in Seq(Nat), s # <<>>
  PROVE  /\ Head(s) \in Nat /\ Head(s) \in ToSet(s)
         /\ Tail(s) \in Seq(Nat) /\ ToSet(Tail(s)) \subseteq ToSet(s)
         /\ Tail(s) = <<>> <=> Len(s) = 1
<1>1. Len(s) \in Nat /\ Len(s) # 0 /\ DOMAIN s = 1..Len(s)
  OBVIOUS
<1>2. Head(s) = s[1] /\ 1 \in DOMAIN s
  BY <1>1
<1>3. /\ Tail(s) \in Seq(Nat) /\ Len(Tail(s)) = Len(s) - 1
      /\ \A i \in 1..Len(s) - 1 : Tail(s)[i] = s[i + 1]
  BY <1>1
<1>4. \A i \in 1..Len(s) - 1 : i + 1 \in 1..Len(s)
  BY <1>1
<1>5. DOMAIN Tail(s) = 1..Len(s) - 1
  BY <1>1, <1>3
<1>6. ToSet(Tail(s)) \subseteq ToSet(s)
  BY <1>1, <1>3, <1>4, <1>5 DEF ToSet
<1>7. Head(s) \in Nat /\ Head(s) \in ToSet(s)
  BY <1>2 DEF ToSet
<1>8. Tail(s) = <<>> <=> Len(s) = 1
  <2>1. Tail(s) = <<>> => Len(Tail(s)) = 0
    BY EmptySeq
  <2>2. Tail(s) # <<>> => Len(Tail(s)) # 0
    BY <1>3, EmptySeq
  <2> QED
    BY <1>1, <1>3, <2>1, <2>2
<1> QED
  BY <1>3, <1>6, <1>7, <1>8

\* The part of TypeOK that is about one rule, and the rest.
RuleOK(r) ==
    /\ {cm.data[r].id, cur[r].id} \subseteq 0..Len(log[r])
    /\ lost[r] \union skipped[r] \union ToSet(batch[r]) \subseteq DOMAIN log[r]
    /\ \A i \in DOMAIN received[r] : received[r][i].id \in DOMAIN log[r]
    /\ pc[r] = "post" <=> batch[r] # <<>>

Labels == {"down", "hooks", "get", "create", "poll", "post", "save", "ended"}

VarsOK ==
    /\ now \in 1..MaxTime /\ hook \in [Rules -> BOOLEAN]
    /\ log \in [Rules -> Seq(1..MaxTime)]
    /\ cm \in [exists : BOOLEAN, data : [Rules -> Position]]
    /\ pc \in [Rules -> Labels]
    /\ cur \in [Rules -> Position] /\ since \in [Rules -> 0..MaxTime]
    /\ batch \in [Rules -> Seq(Nat)] /\ received \in [Rules -> Seq([id : Nat, life : Nat])]
    /\ lost \in [Rules -> SUBSET Nat] /\ skipped \in [Rules -> SUBSET Nat]
    /\ life \in Nat /\ crashes \in 0..MaxCrashes /\ fails \in 0..MaxFails

LEMMA TypeParts == TypeOK <=> VarsOK /\ \A r \in Rules : RuleOK(r)
  BY DEF TypeOK, VarsOK, RuleOK, Labels

LEMMA TypeOutside ==
  VarsOK /\ (\A r \in Rules : RuleOK(r)) /\ (Tick \/ Restart \/ Crash \/ \E r \in Rules : Deliver(r))
    => VarsOK' /\ \A r \in Rules : RuleOK(r)'
<1> SUFFICES ASSUME VarsOK, \A r \in Rules : RuleOK(r),
                    Tick \/ Restart \/ Crash \/ \E r \in Rules : Deliver(r)
             PROVE  VarsOK' /\ \A r \in Rules : RuleOK(r)'
  OBVIOUS
<1>1. CASE Tick
  BY <1>1 DEF Tick, VarsOK, RuleOK
<1>2. CASE Restart
  <2>1. \A r \in Rules : batch[r] = <<>> /\ pc'[r] = "hooks"
    BY <1>2 DEF Restart, RuleOK
  <2>2. VarsOK'
    BY <1>2 DEF Restart, VarsOK, Labels, outside
  <2> QED
    BY <1>2, <2>1, <2>2 DEF Restart, RuleOK, outside
<1>3. CASE Crash
  <2>1. NoPosition \in Position /\ NoPosition.id = 0 /\ ToSet(<<>>) = {}
    BY DEF NoPosition, Position, ToSet
  <2>2. VarsOK'
    BY SMTT(30), <1>3, <2>1 DEF Crash, Killed, VarsOK, Labels, outside
  <2>3. \A r \in Rules : /\ pc'[r] = "down" /\ cur'[r] = NoPosition /\ batch'[r] = <<>>
    BY <1>3 DEF Crash, Killed
  <2>4. \A r \in Rules : Len(log[r]) \in Nat
    BY DEF VarsOK
  <2> QED
    BY <1>3, <2>1, <2>2, <2>3, <2>4 DEF Crash, Killed, RuleOK, outside
<1>4. ASSUME NEW r \in Rules, Deliver(r) PROVE VarsOK' /\ \A q \in Rules : RuleOK(q)'
  <2>1. log[r] \in Seq(1..MaxTime) /\ now \in 1..MaxTime
    BY DEF VarsOK
  <2>2. /\ Append(log[r], now) \in Seq(1..MaxTime)
        /\ Len(Append(log[r], now)) = Len(log[r]) + 1
    BY <2>1
  <2>3. log' = [log EXCEPT ![r] = Append(log[r], now)]
    BY <1>4 DEF Deliver
  <2>4. log' \in [Rules -> Seq(1..MaxTime)]
    BY <2>2, <2>3 DEF VarsOK
  <2>5. \A q \in Rules : /\ Len(log[q]) \in Nat /\ Len(log'[q]) \in Nat
                         /\ Len(log'[q]) >= Len(log[q])
    <3> TAKE q \in Rules
    <3>1. log[q] \in Seq(1..MaxTime) /\ Len(log[q]) \in Nat
      BY DEF VarsOK
    <3>2. CASE q = r
      <4>1. log'[q] = Append(log[r], now)
        BY <2>3, <3>2 DEF VarsOK
      <4> QED
        BY <2>2, <3>1, <3>2, <4>1
    <3>3. CASE q # r
      <4>1. log'[q] = log[q]
        BY <2>3, <3>3 DEF VarsOK
      <4> QED
        BY <3>1, <4>1
    <3> QED
      BY <3>2, <3>3
  <2>6. \A q \in Rules : DOMAIN log[q] = 1..Len(log[q]) /\ DOMAIN log'[q] = 1..Len(log'[q])
    BY <2>4 DEF VarsOK
  <2>7. \A q \in Rules : /\ DOMAIN log[q] \subseteq DOMAIN log'[q]
                         /\ 0..Len(log[q]) \subseteq 0..Len(log'[q])
    BY <2>5, <2>6
  <2>8. VarsOK'
    BY <1>4, <2>4 DEF Deliver, VarsOK
  <2>9. UNCHANGED <<cm, pc, cur, batch, received, lost, skipped>>
    BY <1>4 DEF Deliver
  <2>10. ASSUME NEW q \in Rules PROVE RuleOK(q)'
    <3>1. RuleOK(q) /\ DOMAIN log[q] \subseteq DOMAIN log'[q] /\ 0..Len(log[q]) \subseteq 0..Len(log'[q])
      BY <2>7
    <3> QED
      BY <2>9, <3>1 DEF RuleOK
  <2> QED
    BY <2>8, <2>10
<1> QED
  BY <1>1, <1>2, <1>3, <1>4

\* A step of one rule leaves what belongs to the others alone.
OthersUnchanged(r) ==
    \A q \in Rules \ {r} :
        /\ cm'.data[q] = cm.data[q] /\ pc'[q] = pc[q] /\ cur'[q] = cur[q] /\ batch'[q] = batch[q]
        /\ received'[q] = received[q] /\ lost'[q] = lost[q] /\ skipped'[q] = skipped[q]
        /\ since'[q] = since[q]

LEMMA TypeStep ==
  ASSUME VarsOK, \A q \in Rules : RuleOK(q), NEW r \in Rules, Step(r)
  PROVE  VarsOK' /\ (PollFails(r) \/ OthersUnchanged(r)) /\ \A q \in Rules : RuleOK(q)'
<1>0. /\ {"down", "hooks", "get", "create", "poll", "post", "save", "ended"} = Labels
      /\ Len(log[r]) \in Nat /\ RuleOK(r)
      /\ Fails => fails' \in 0..MaxFails
  BY DEF Labels, VarsOK, Fails
<1>1. ASSUME log' = log, RuleOK(r)', OthersUnchanged(r)
      PROVE  \A q \in Rules : RuleOK(q)'
  BY <1>1 DEF RuleOK, OthersUnchanged
<1>2. ASSUME Return(r), pc[r] # "post", fails' \in 0..MaxFails
      PROVE  VarsOK' /\ OthersUnchanged(r) /\ \A q \in Rules : RuleOK(q)'
  <2>1. VarsOK'
    BY <1>0, <1>2 DEF Return, Goto, VarsOK, outside
  <2>2. RuleOK(r)' /\ OthersUnchanged(r) /\ log' = log
    BY <1>0, <1>2 DEF Return, Goto, VarsOK, RuleOK, OthersUnchanged, outside
  <2> QED
    BY <1>1, <2>1, <2>2
<1>3. CASE FindHook(r)
  <2>1. CASE Fails /\ Return(r)
    BY <1>0, <1>2, <1>3, <2>1 DEF FindHook
  <2>2. CASE ~(Fails /\ Return(r))
    <3>1. VarsOK'
      BY <1>0, <1>3, <2>2 DEF FindHook, Goto, VarsOK
    <3>2. RuleOK(r)' /\ OthersUnchanged(r) /\ log' = log
      BY SMTT(30), <1>0, <1>3, <2>2 DEF FindHook, Goto, VarsOK, RuleOK, OthersUnchanged
    <3> QED
      BY <1>1, <3>1, <3>2
  <2> QED
    BY <2>1, <2>2
<1>4. ASSUME NEW pos \in Position, pos.id \in 0..Len(log[r]), StartAt(r, pos), pc[r] # "post",
             cm' \in [exists : BOOLEAN, data : {cm.data}]
      PROVE  VarsOK' /\ OthersUnchanged(r) /\ \A q \in Rules : RuleOK(q)'
  <2>1. cm'.data = cm.data /\ cm' \in [exists : BOOLEAN, data : [Rules -> Position]]
    BY <1>4 DEF VarsOK
  <2>2. since' \in [Rules -> 0..MaxTime]
    BY <1>4 DEF StartAt, VarsOK
  <2>3. VarsOK'
    BY <1>0, <1>4, <2>1, <2>2 DEF StartAt, Goto, VarsOK, outside
  <2>4. RuleOK(r)' /\ log' = log
    BY <1>0, <1>4, <2>1 DEF StartAt, Goto, VarsOK, RuleOK, outside
  <2>5. OthersUnchanged(r)
    BY <1>4, <2>1 DEF StartAt, Goto, VarsOK, OthersUnchanged
  <2> QED
    BY <1>1, <2>3, <2>4, <2>5
<1>5. [at |-> now, id |-> 0] \in Position /\ 0 \in 0..Len(log[r])
  BY <1>0 DEF VarsOK, Position
<1>6. CASE GetCheckpoint(r)
  <2>1. CASE Fails /\ Return(r)
    BY <1>0, <1>2, <1>6, <2>1 DEF GetCheckpoint
  <2>2. CASE cm.exists /\ StartAt(r, Saved(r)) /\ UNCHANGED cm
    <3>1. Saved(r) \in Position /\ Saved(r).id \in 0..Len(log[r])
      BY <1>0, <1>5 DEF Saved, VarsOK, RuleOK
    <3>2. cm' \in [exists : BOOLEAN, data : {cm.data}]
      BY <2>2 DEF VarsOK
    <3> QED
      BY <1>4, <1>6, <2>2, <3>1, <3>2 DEF GetCheckpoint
  <2>3. CASE /\ Goto(r, "create")
             /\ UNCHANGED <<outside, cm, cur, batch, received, lost, skipped, since, life, crashes, fails>>
    <3>1. VarsOK'
      BY <1>0, <2>3 DEF Goto, VarsOK, outside
    <3>2. RuleOK(r)' /\ OthersUnchanged(r) /\ log' = log
      BY <1>0, <1>6, <2>3 DEF GetCheckpoint, Goto, VarsOK, RuleOK, OthersUnchanged, outside
    <3> QED
      BY <1>1, <3>1, <3>2
  <2> QED
    BY <1>6, <2>1, <2>2, <2>3 DEF GetCheckpoint
<1>7. CASE CreateCheckpoint(r)
  <2>1. CASE cm.exists /\ Return(r) /\ UNCHANGED fails
    <3>1. fails' \in 0..MaxFails
      BY <2>1 DEF VarsOK
    <3> QED
      BY <1>2, <1>7, <2>1, <3>1 DEF CreateCheckpoint
  <2>2. CASE cm' = [cm EXCEPT !.exists = TRUE] /\ StartAt(r, [at |-> now, id |-> 0])
    <3>1. cm' \in [exists : BOOLEAN, data : {cm.data}]
      BY <2>2 DEF VarsOK
    <3> QED
      BY <1>4, <1>5, <1>7, <2>2, <3>1 DEF CreateCheckpoint
  <2> QED
    BY <1>7, <2>1, <2>2 DEF CreateCheckpoint
<1>8. CASE Poll(r)
  <2>1. TypeOK
    BY TypeParts
  <2>2. PICK s \in {Scan(Listing(r), cur[r])} :
          /\ cur' = [cur EXCEPT ![r] = s.pos]
          /\ batch' = [batch EXCEPT ![r] = s.found]
          /\ Goto(r, IF s.found = <<>> THEN "save" ELSE "post")
          /\ skipped' = [skipped EXCEPT ![r] = @ \union (Unseen(r) \ ToSet(s.found))]
          /\ UNCHANGED <<outside, cm, received, lost, since, life, crashes, fails>>
    BY <1>8 DEF Poll
  <2>3. /\ s.pos \in Position /\ s.pos.id \in 0..Len(log[r])
        /\ s.found \in Seq(Nat) /\ ToSet(s.found) \subseteq DOMAIN log[r]
    BY <2>1, ScanType
  <2>7. /\ skipped' \in [Rules -> SUBSET Nat] /\ skipped'[r] \subseteq DOMAIN log[r]
        /\ \A q \in Rules \ {r} : skipped'[q] = skipped[q]
    <3>1. Unseen(r) \subseteq DOMAIN log[r] /\ DOMAIN log[r] = 1..Len(log[r])
      BY DEF Unseen, VarsOK
    <3>2. skipped \in [Rules -> SUBSET Nat] /\ skipped[r] \subseteq DOMAIN log[r]
      BY <1>0 DEF VarsOK, RuleOK
    <3> QED
      BY <1>0, <2>2, <3>1, <3>2
  <2>4. VarsOK'
    BY <1>0, <2>2, <2>3, <2>7 DEF Goto, VarsOK, outside
  <2>5. RuleOK(r)' /\ log' = log
    BY <1>0, <2>2, <2>3, <2>7 DEF Goto, VarsOK, RuleOK, outside
  <2>6. OthersUnchanged(r)
    BY <2>2, <2>7 DEF Goto, VarsOK, OthersUnchanged
  <2> QED
    BY <1>1, <2>4, <2>5, <2>6
<1>9. CASE PollFails(r)
  <2>1. NoPosition \in Position /\ NoPosition.id = 0 /\ ToSet(<<>>) = {}
    BY DEF NoPosition, Position, ToSet
  <2>2. VarsOK'
    BY <1>0, <1>9, <2>1 DEF PollFails, Killed, VarsOK, outside
  <2>3. \A q \in Rules : pc'[q] = "down" /\ cur'[q] = NoPosition /\ batch'[q] = <<>>
    BY <1>9 DEF PollFails, Killed
  <2>4. \A q \in Rules : Len(log[q]) \in Nat
    BY DEF VarsOK
  <2>5. \A q \in Rules : RuleOK(q)'
    BY <1>9, <2>1, <2>3, <2>4 DEF PollFails, Killed, RuleOK, outside
  <2> QED
    BY <1>9, <2>2, <2>5
<1>10. ASSUME pc[r] = "post"
       PROVE  /\ batch[r] \in Seq(Nat) /\ batch[r] # <<>>
              /\ Head(batch[r]) \in Nat /\ Head(batch[r]) \in DOMAIN log[r]
              /\ Tail(batch[r]) \in Seq(Nat) /\ ToSet(Tail(batch[r])) \subseteq ToSet(batch[r])
              /\ ToSet(batch[r]) \subseteq DOMAIN log[r]
              /\ Tail(batch[r]) = <<>> <=> Len(batch[r]) = 1
  <2>1. batch[r] \in Seq(Nat) /\ batch[r] # <<>> /\ ToSet(batch[r]) \subseteq DOMAIN log[r]
    BY <1>0, <1>10 DEF VarsOK, RuleOK
  <2> QED
    BY <2>1, BatchFacts
<1>11. ASSUME NEW id \in Nat, id \in DOMAIN log[r], Receive(r, id)
       PROVE  /\ received' \in [Rules -> Seq([id : Nat, life : Nat])]
              /\ \A i \in DOMAIN received'[r] : received'[r][i].id \in DOMAIN log[r]
              /\ \A q \in Rules \ {r} : received'[q] = received[q]
  <2>1. received[r] \in Seq([id : Nat, life : Nat]) /\ [id |-> id, life |-> life] \in [id : Nat, life : Nat]
    BY DEF VarsOK
  <2>2. received' = [received EXCEPT ![r] = Append(received[r], [id |-> id, life |-> life])]
    BY <1>11 DEF Receive
  <2>3. received'[r] = Append(received[r], [id |-> id, life |-> life])
    BY <2>2 DEF VarsOK
  <2>4. \A i \in DOMAIN received'[r] : \/ i \in DOMAIN received[r] /\ received'[r][i] = received[r][i]
                                     \/ received'[r][i] = [id |-> id, life |-> life]
    BY <2>1, <2>3
  <2>5. \A i \in DOMAIN received[r] : received[r][i].id \in DOMAIN log[r]
    BY <1>0 DEF RuleOK
  <2>6. received'[r] \in Seq([id : Nat, life : Nat])
    BY <2>1, <2>3
  <2>7. \A i \in DOMAIN received'[r] : received'[r][i].id \in DOMAIN log[r]
    BY <1>11, <2>4, <2>5
  <2> QED
    BY <2>2, <2>3, <2>6, <2>7 DEF VarsOK
<1>12. CASE Post(r)
  <2>1. VarsOK'
    BY <1>0, <1>10, <1>11, <1>12 DEF Post, Goto, VarsOK, outside
  <2>2. RuleOK(r)' /\ log' = log
    BY <1>0, <1>10, <1>11, <1>12 DEF Post, Goto, VarsOK, RuleOK, outside
  <2>3. OthersUnchanged(r)
    BY <1>10, <1>11, <1>12 DEF Post, Goto, VarsOK, OthersUnchanged
  <2> QED
    BY <1>1, <2>1, <2>2, <2>3
<1>13. CASE PostFails(r)
  <2>0. /\ ToSet(batch[r]) \subseteq DOMAIN log[r] /\ ToSet(Tail(batch[r])) \subseteq DOMAIN log[r]
        /\ lost[r] \subseteq DOMAIN log[r] /\ DOMAIN log[r] \subseteq Nat
    <3>1. log[r] \in Seq(1..MaxTime) /\ lost[r] \subseteq DOMAIN log[r]
      BY <1>0 DEF VarsOK, RuleOK
    <3>2. DOMAIN log[r] = 1..Len(log[r])
      BY <3>1
    <3>3. DOMAIN log[r] \subseteq Nat
      BY <3>2
    <3> QED
      BY <1>10, <1>13, <3>1, <3>3 DEF PostFails
  <2>1. /\ lost' \in [Rules -> SUBSET Nat] /\ lost'[r] \subseteq DOMAIN log[r]
        /\ \A q \in Rules \ {r} : lost'[q] = lost[q]
    <3>1. PICK new \in SUBSET DOMAIN log[r] : lost' = [lost EXCEPT ![r] = @ \union new]
      BY <1>13, <2>0 DEF PostFails
    <3> QED
      BY <2>0, <3>1 DEF VarsOK
  <2>2. /\ received' \in [Rules -> Seq([id : Nat, life : Nat])]
        /\ \A i \in DOMAIN received'[r] : received'[r][i].id \in DOMAIN log[r]
        /\ \A q \in Rules \ {r} : received'[q] = received[q]
    BY <1>0, <1>10, <1>11, <1>13 DEF PostFails, VarsOK, RuleOK
  <2>3. ToSet(<<>>) = {}
    BY DEF ToSet
  <2>4. VarsOK'
    BY <1>0, <1>13, <2>1, <2>2 DEF PostFails, Goto, VarsOK, outside
  <2>5. RuleOK(r)' /\ log' = log
    BY <1>0, <1>13, <2>1, <2>2, <2>3 DEF PostFails, Goto, VarsOK, RuleOK, outside
  <2>6. OthersUnchanged(r)
    BY <1>13, <2>1, <2>2 DEF PostFails, Goto, VarsOK, OthersUnchanged
  <2> QED
    BY <1>1, <2>4, <2>5, <2>6
<1>14. CASE Save(r)
  <2>1. CASE Fails /\ Return(r)
    BY <1>0, <1>2, <1>14, <2>1 DEF Save
  <2>2. CASE ~(Fails /\ Return(r))
    <3>1. cm' = [cm EXCEPT !.data[r] = cur[r]]
      BY <1>14, <2>2 DEF Save
    <3>2. /\ cm' \in [exists : BOOLEAN, data : [Rules -> Position]]
          /\ cm'.data[r] = cur[r] /\ \A q \in Rules \ {r} : cm'.data[q] = cm.data[q]
      BY <3>1 DEF VarsOK
    <3>3. VarsOK'
      BY ZenonT(60), <1>0, <1>14, <2>2, <3>2 DEF Save, Goto, VarsOK, outside
    <3>4. RuleOK(r)' /\ log' = log
      BY SMTT(30), <1>0, <1>14, <2>2, <3>2 DEF Save, Goto, VarsOK, RuleOK, outside
    <3>5. OthersUnchanged(r)
      BY <1>14, <2>2, <3>2 DEF Save, Goto, VarsOK, OthersUnchanged
    <3> QED
      BY <1>1, <3>3, <3>4, <3>5
  <2> QED
    BY <2>1, <2>2
<1> QED
  BY <1>3, <1>6, <1>7, <1>8, <1>9, <1>12, <1>13, <1>14 DEF Step

LEMMA TypeNext == TypeOK /\ [Next]_vars => TypeOK'
<1>1. TypeOK /\ UNCHANGED vars => TypeOK'
  BY DEF TypeOK, vars
<1>2. TypeOK' <=> VarsOK' /\ \A r \in Rules : RuleOK(r)'
  BY DEF TypeOK, VarsOK, RuleOK, Labels
<1> QED
  BY <1>1, <1>2, TypeParts, TypeOutside, TypeStep DEF Next

\* Positions, batches and received deliveries are always about deliveries that GitHub has
\* made, for every number of rules, deliveries, crashes and failures.
THEOREM TypeCorrect == Safety => []TypeOK
  BY TypeInit, TypeNext, PTL DEF Safety

-----------------------------------------------------------------------------
(* What is forwarded.  The position in memory is never behind what this life *)
(* of the process has posted, and no position is older than the start of the *)
(* rule.                                                                     *)

Running == {"poll", "post", "save"}

\* The one delivery in a batch is the one that the position has moved to.  No later one
\* was received, and in this life not even that one.
OrderInv(r) ==
    /\ pc[r] = "post" => batch[r] = <<cur[r].id>>
    /\ \A i \in DOMAIN received[r] :
          /\ received[r][i].life <= life
          /\ pc[r] \in {"hooks", "get", "create"} => received[r][i].life < life
          /\ pc[r] \in {"poll", "save"} /\ received[r][i].life = life
               => received[r][i].id <= cur[r].id
          /\ pc[r] = "post" =>
               \/ received[r][i].id < cur[r].id
               \/ received[r][i].id = cur[r].id /\ received[r][i].life < life

StartInv(r) ==
    /\ cm.data[r].at # 0 => cm.exists /\ cm.data[r].at >= since[r]
    /\ pc[r] \in Running => cm.exists /\ cur[r].at >= since[r]
    /\ pc[r] = "post" => log[r][cur[r].id] >= since[r]

InOrderOf(r) ==
    \A i, j \in DOMAIN received[r] :
        i < j => \/ received[r][i].id < received[r][j].id
                 \/ /\ received[r][i].id = received[r][j].id
                    /\ received[r][i].life < received[r][j].life

RuleInv(r) == OrderInv(r) /\ InOrderOf(r) /\ StartInv(r)

ForwardInv == \A r \in Rules : RuleInv(r)

LEMMA ReceivedType ==
  ASSUME TypeOK, NEW r \in Rules
  PROVE  /\ received[r] \in Seq([id : Nat, life : Nat]) /\ Len(received[r]) \in Nat
         /\ DOMAIN received[r] = 1..Len(received[r])
         /\ \A i \in DOMAIN received[r] :
               /\ received[r][i] \in [id : Nat, life : Nat]
               /\ received[r][i].id \in Nat /\ received[r][i].life \in Nat
               /\ received[r][i].id \in DOMAIN log[r]
<1>1. received[r] \in Seq([id : Nat, life : Nat])
  BY DEF TypeOK
<1>2. Len(received[r]) \in Nat /\ DOMAIN received[r] = 1..Len(received[r])
  BY <1>1
<1>3. \A i \in DOMAIN received[r] : received[r][i] \in [id : Nat, life : Nat]
  BY <1>1, <1>2, ElementOfSeq
<1>4. \A i \in DOMAIN received[r] : received[r][i].id \in Nat /\ received[r][i].life \in Nat
  BY <1>3
<1>5. \A i \in DOMAIN received[r] : received[r][i].id \in DOMAIN log[r]
  BY DEF TypeOK
<1> QED
  BY <1>1, <1>2, <1>3, <1>4, <1>5

LEMMA ForwardInit == Init => ForwardInv
<1> SUFFICES ASSUME Init, NEW r \in Rules PROVE RuleInv(r)
  BY DEF ForwardInv
<1>1. /\ pc[r] = "down" /\ received[r] = <<>> /\ cm.data[r] = NoPosition
  BY DEF Init
<1>2. DOMAIN received[r] = {}
  BY <1>1
<1> QED
  BY <1>1, <1>2 DEF RuleInv, OrderInv, InOrderOf, StartInv, Running, NoPosition

\* Time, a delivery, a crash and a restart forward nothing.
LEMMA ForwardOutside ==
  ASSUME TypeOK, ForwardInv, Tick \/ Restart \/ Crash \/ \E r \in Rules : Deliver(r)
  PROVE  ForwardInv'
<1> SUFFICES ASSUME NEW q \in Rules PROVE RuleInv(q)'
  BY DEF ForwardInv
<1> USE DEF RuleInv, OrderInv, InOrderOf, StartInv, Running
<1>0. RuleInv(q)
  BY DEF ForwardInv
<1>1. CASE Tick
  BY <1>0, <1>1 DEF Tick
<1>2. CASE Restart
  <2>1. pc'[q] = "hooks" /\ life' = life + 1 /\ life \in Nat
    BY <1>2 DEF Restart, TypeOK
  <2>2. \A i \in DOMAIN received[q] : received[q][i].life \in Nat /\ received[q][i].life <= life
    BY <1>0, ReceivedType
  <2>3. \A i \in DOMAIN received[q] : received[q][i].life < life'
    BY <2>1, <2>2
  <2>4. UNCHANGED <<cm, cur, received, lost, skipped, since>>
    BY <1>2 DEF Restart
  <2>5. OrderInv(q)'
    BY <2>1, <2>2, <2>3, <2>4
  <2>6. InOrderOf(q)' /\ StartInv(q)'
    BY <1>0, <2>1, <2>4
  <2> QED
    BY <2>5, <2>6
<1>3. CASE Crash
  <2>1. pc'[q] = "down"
    BY <1>3 DEF Crash, Killed
  <2> QED
    BY <1>0, <1>3, <2>1 DEF Crash, Killed, outside
<1>4. ASSUME NEW r \in Rules, Deliver(r) PROVE RuleInv(q)'
  <2>1. pc[q] = "post" => cur[q].id \in DOMAIN log[q]
    <3>1. pc[q] = "post" => cur[q].id \in ToSet(batch[q])
      BY <1>0 DEF ToSet
    <3> QED
      BY <3>1 DEF TypeOK
  <2>2. log \in [Rules -> Seq(1..MaxTime)] /\ log[q] \in Seq(1..MaxTime)
        /\ now \in 1..MaxTime /\ DOMAIN log[q] = 1..Len(log[q])
    BY DEF TypeOK
  <2>3. log'[q] = log[q] \/ log'[q] = Append(log[q], now)
    BY <1>4, <2>2 DEF Deliver
  <2>4. \A i \in DOMAIN log[q] : log'[q][i] = log[q][i]
    BY <2>2, <2>3
  <2>5. pc[q] = "post" => log'[q][cur[q].id] = log[q][cur[q].id]
    BY <2>1, <2>4
  <2>6. UNCHANGED <<cm, pc, cur, batch, received, lost, skipped, since, life>>
    BY <1>4 DEF Deliver
  <2> QED
    BY <1>0, <2>5, <2>6
<1> QED
  BY <1>1, <1>2, <1>3, <1>4

\* A poll finds nothing, or the latest delivery, which this life has not posted yet.
LEMMA PollFinds ==
  ASSUME TypeOK, NEW r \in Rules, Poll(r)
  PROVE  /\ UNCHANGED <<log, cm, received, lost, since, life>>
         /\ \/ pc'[r] = "save" /\ cur'[r] = cur[r]
            \/ /\ pc'[r] = "post" /\ batch'[r] = <<Len(log[r])>>
               /\ cur'[r] = Latest(r) /\ Len(log[r]) # 0 /\ ~ Processed(Latest(r), cur[r])
<1>1. cur[r] \in Position /\ cur[r].id \in 0..Len(log[r]) /\ log \in [Rules -> Seq(1..MaxTime)]
  BY DEF TypeOK
<1>2. Len(log[r]) \in Nat
  BY <1>1
<1>3. cur[r].id <= Len(log[r])
  BY <1>1, <1>2
<1>4. Scan(Listing(r), cur[r]) =
        IF Len(log[r]) = 0 \/ Processed(Latest(r), cur[r])
        THEN [found |-> <<>>, pos |-> cur[r]]
        ELSE [found |-> <<Len(log[r])>>, pos |-> Latest(r)]
  BY <1>1, <1>3, ScanFindsLatest
<1>5. PICK s \in {Scan(Listing(r), cur[r])} :
        /\ cur' = [cur EXCEPT ![r] = s.pos]
        /\ batch' = [batch EXCEPT ![r] = s.found]
        /\ Goto(r, IF s.found = <<>> THEN "save" ELSE "post")
        /\ UNCHANGED <<outside, cm, received, lost, since, life, crashes, fails>>
  BY DEF Poll
<1>6. /\ cur'[r] = s.pos /\ batch'[r] = s.found
      /\ pc'[r] = IF s.found = <<>> THEN "save" ELSE "post"
      /\ UNCHANGED <<log, cm, received, lost, since, life>>
  BY <1>5 DEF TypeOK, Goto, outside
<1>7. CASE Len(log[r]) = 0 \/ Processed(Latest(r), cur[r])
  <2>1. s.found = <<>> /\ s.pos = cur[r]
    BY <1>4, <1>5, <1>7
  <2> QED
    BY <1>6, <2>1
<1>8. CASE ~(Len(log[r]) = 0 \/ Processed(Latest(r), cur[r]))
  <2>1. s.found = <<Len(log[r])>> /\ s.pos = Latest(r)
    BY <1>4, <1>5, <1>8
  <2>2. s.found # <<>>
    BY <2>1
  <2> QED
    BY <1>6, <1>8, <2>1, <2>2
<1> QED
  BY <1>7, <1>8

\* A step of one rule does not disturb what holds of the others.
LEMMA ForwardOthers ==
  ASSUME NEW r \in Rules, NEW q \in Rules \ {r}, RuleInv(q), OthersUnchanged(r),
         UNCHANGED <<log, life>>, cm.exists => cm'.exists
  PROVE  RuleInv(q)'
  BY DEF OthersUnchanged, RuleInv, OrderInv, InOrderOf, StartInv, Running

LEMMA ForwardStart ==
  ASSUME TypeOK, NEW r \in Rules, RuleInv(r), FindHook(r) \/ GetCheckpoint(r) \/ CreateCheckpoint(r)
  PROVE  RuleInv(r)' /\ UNCHANGED <<log, life>> /\ (cm.exists => cm'.exists)
<1> USE DEF RuleInv, OrderInv, InOrderOf, StartInv, Running
<1>0. /\ pc \in [Rules -> Labels] /\ cur \in [Rules -> Position] /\ since \in [Rules -> 0..MaxTime]
      /\ cm \in [exists : BOOLEAN, data : [Rules -> Position]] /\ now \in 1..MaxTime /\ life \in Nat
  BY DEF TypeOK, Labels
<1>1. CASE Return(r)
  <2>1. /\ pc'[r] = "ended"
        /\ UNCHANGED <<log, cm, cur, batch, received, lost, skipped, since, life>>
    BY <1>0, <1>1 DEF Return, Goto, outside
  <2> QED
    BY <2>1
<1>2. CASE pc[r] \in {"hooks", "get", "create"} /\ \E label \in {"get", "create"} :
             Goto(r, label) /\ UNCHANGED <<log, cm, cur, batch, received, lost, skipped, since, life>>
  <2>1. pc'[r] \in {"get", "create"}
    BY <1>0, <1>2 DEF Goto
  <2> QED
    BY <1>2, <2>1
<1>3. ASSUME NEW pos \in Position, StartAt(r, pos), cm'.data = cm.data, cm' \in [exists : BOOLEAN, data : [Rules -> Position]],
             cm'.exists,
             pc[r] \in {"hooks", "get", "create"},
             \/ pos = cm.data[r] /\ pos.at # 0
             \/ pos = [at |-> now, id |-> 0] /\ cm.data[r].at = 0
      PROVE  RuleInv(r)' /\ UNCHANGED <<log, life>> /\ (cm.exists => cm'.exists)
  <2>1. /\ pc'[r] = "poll" /\ cur'[r] = pos /\ cm'.data[r] = cm.data[r]
        /\ since'[r] = IF pos.id = 0 /\ pos.at = now THEN now ELSE since[r]
        /\ UNCHANGED <<log, batch, received, lost, skipped, life>>
    BY <1>0, <1>3 DEF StartAt, Goto, outside
  <2>2. OrderInv(r)'
    BY <1>0, <1>3, <2>1, ReceivedType
  <2>3. InOrderOf(r)'
    BY <2>1
  <2>4. StartInv(r)'
    BY <1>0, <1>3, <2>1 DEF Position
  <2> QED
    BY <1>3, <2>1, <2>2, <2>3, <2>4
<1>4. CASE FindHook(r)
  BY <1>1, <1>2, <1>4 DEF FindHook
<1>5. CASE GetCheckpoint(r)
  <2>1. CASE cm.exists /\ StartAt(r, Saved(r)) /\ UNCHANGED cm
    <3>1. Saved(r) \in Position
      BY <1>0 DEF Saved, Position
    <3>2. \/ Saved(r) = cm.data[r] /\ Saved(r).at # 0
          \/ Saved(r) = [at |-> now, id |-> 0] /\ cm.data[r].at = 0
      BY DEF Saved
    <3> QED
      BY <1>0, <1>3, <1>5, <2>1, <3>1, <3>2 DEF GetCheckpoint
  <2> QED
    BY <1>1, <1>2, <1>5, <2>1 DEF GetCheckpoint, outside
<1>6. CASE CreateCheckpoint(r)
  <2>1. CASE ~cm.exists /\ cm' = [cm EXCEPT !.exists = TRUE] /\ StartAt(r, [at |-> now, id |-> 0])
    <3>1. [at |-> now, id |-> 0] \in Position
      BY <1>0 DEF Position
    <3>2. cm.data[r].at = 0
      BY <2>1
    <3>3. /\ cm'.data = cm.data /\ cm' \in [exists : BOOLEAN, data : [Rules -> Position]] /\ cm'.exists
      BY <1>0, <2>1
    <3> QED
      BY <1>3, <1>6, <2>1, <3>1, <3>2, <3>3 DEF CreateCheckpoint
  <2> QED
    BY <1>1, <1>6, <2>1 DEF CreateCheckpoint
<1> QED
  BY <1>4, <1>5, <1>6

LEMMA ForwardPoll ==
  ASSUME TypeOK, NEW r \in Rules, RuleInv(r), Poll(r)
  PROVE  RuleInv(r)' /\ UNCHANGED <<log, life, cm>>
<1> USE DEF RuleInv, OrderInv, InOrderOf, StartInv, Running
<1>0. /\ pc[r] = "poll" /\ UNCHANGED <<log, cm, received, lost, since, life>>
  BY PollFinds DEF Poll
<1>1. CASE pc'[r] = "save" /\ cur'[r] = cur[r]
  BY <1>0, <1>1
<1>2. CASE /\ pc'[r] = "post" /\ batch'[r] = <<Len(log[r])>>
           /\ cur'[r] = Latest(r) /\ Len(log[r]) # 0 /\ ~ Processed(Latest(r), cur[r])
  <2>1. /\ cur[r].at \in Nat /\ cur[r].id \in Nat /\ since[r] \in Nat /\ Len(log[r]) \in Nat
        /\ DOMAIN log[r] = 1..Len(log[r]) /\ log[r] \in Seq(1..MaxTime)
    <3>1. cur[r] \in Position /\ since[r] \in 0..MaxTime /\ log[r] \in Seq(1..MaxTime)
      BY DEF TypeOK
    <3>2. Len(log[r]) \in Nat /\ DOMAIN log[r] = 1..Len(log[r])
      BY <3>1
    <3> QED
      BY <3>1, <3>2 DEF Position
  <2>2. log[r][Len(log[r])] \in Nat
    BY <1>2, <2>1
  <2>3. cur'[r].id = Len(log[r]) /\ cur'[r].at = log[r][Len(log[r])]
    BY <1>2 DEF Latest
  <2>4. cur'[r].at >= cur[r].at /\ (cur[r].id # 0 => cur'[r].id > cur[r].id)
    BY <1>2, <2>1, <2>2 DEF Latest, Processed
  <2>5. ASSUME NEW i \in DOMAIN received[r]
        PROVE  \/ received[r][i].id < cur'[r].id
               \/ received[r][i].id = cur'[r].id /\ received[r][i].life < life
    <3>1. received[r][i].id \in 1..Len(log[r]) /\ received[r][i].life \in Nat /\ life \in Nat
      BY <2>1, ReceivedType DEF TypeOK
    <3>2. received[r][i].life = life => received[r][i].id < cur'[r].id
      BY <1>0, <2>1, <2>3, <2>4, <3>1
    <3> QED
      BY <1>0, <2>1, <2>3, <3>1, <3>2
  <2>6. OrderInv(r)'
    BY <1>0, <1>2, <2>3, <2>5
  <2>7. StartInv(r)'
    BY <1>0, <1>2, <2>1, <2>2, <2>3, <2>4
  <2> QED
    BY <1>0, <1>2, <2>6, <2>7
<1> QED
  BY <1>0, <1>1, <1>2, PollFinds

\* The target receives a delivery: what was in order stays in order.
LEMMA ForwardReceive ==
  ASSUME TypeOK, NEW r \in Rules, RuleInv(r), pc[r] = "post", Receive(r, Head(batch[r]))
  PROVE  /\ InOrderOf(r)'
         /\ \A i \in DOMAIN received'[r] : received'[r][i].life <= life /\ received'[r][i].id <= cur[r].id
         /\ \E i \in DOMAIN received'[r] : received'[r][i].id = cur[r].id
<1> DEFINE n == Len(received[r])
           new == [id |-> cur[r].id, life |-> life]
<1>1. batch[r] = <<cur[r].id>> /\ cur[r].id \in Nat /\ life \in Nat
  BY DEF RuleInv, OrderInv, TypeOK, Position
<1>2. Head(batch[r]) = cur[r].id
  BY <1>1
<1>3. received' = [received EXCEPT ![r] = Append(received[r], new)]
  BY <1>2 DEF Receive
<1>4. received'[r] = Append(received[r], new)
  BY <1>3 DEF TypeOK
<1>5. /\ received[r] \in Seq([id : Nat, life : Nat]) /\ n \in Nat /\ DOMAIN received[r] = 1..n
      /\ \A i \in 1..n : received[r][i].id \in Nat /\ received[r][i].life \in Nat
  BY ReceivedType
<1>6. new \in [id : Nat, life : Nat] /\ new.id = cur[r].id /\ new.life = life
  BY <1>1
<1> HIDE DEF new
<1>7. /\ DOMAIN received'[r] = 1..n + 1 /\ received'[r][n + 1] = new
      /\ \A i \in 1..n : received'[r][i] = received[r][i]
  BY <1>4, <1>5, <1>6
<1>8. \A i \in 1..n + 1 : i \in 1..n \/ i = n + 1
  BY <1>5
<1>9. \A i \in 1..n : /\ received[r][i].life <= life
                      /\ \/ received[r][i].id < cur[r].id
                         \/ received[r][i].id = cur[r].id /\ received[r][i].life < life
  BY <1>5 DEF RuleInv, OrderInv
<1>10. InOrderOf(r)'
  <2> SUFFICES ASSUME NEW i \in DOMAIN received'[r], NEW j \in DOMAIN received'[r], i < j
               PROVE  \/ received'[r][i].id < received'[r][j].id
                      \/ /\ received'[r][i].id = received'[r][j].id
                         /\ received'[r][i].life < received'[r][j].life
    BY DEF InOrderOf
  <2>1. i \in 1..n
    BY <1>5, <1>7
  <2>2. CASE j \in 1..n
    BY ZenonT(60), <1>5, <1>7, <2>1, <2>2 DEF RuleInv, InOrderOf
  <2>3. CASE j = n + 1
    BY <1>6, <1>7, <1>9, <2>1, <2>3
  <2> QED
    BY <1>7, <1>8, <2>2, <2>3
<1>11. \A i \in DOMAIN received'[r] : received'[r][i].life <= life /\ received'[r][i].id <= cur[r].id
  <2>1. \A i \in 1..n : received'[r][i].life <= life /\ received'[r][i].id <= cur[r].id
    <3> SUFFICES ASSUME NEW i \in 1..n
                 PROVE  received[r][i].life <= life /\ received[r][i].id <= cur[r].id
      BY <1>7
    <3>1. received[r][i].id \in Nat /\ cur[r].id \in Nat
      BY <1>1, <1>5
    <3> QED
      BY <1>9, <3>1
  <2>2. received'[r][n + 1].life <= life /\ received'[r][n + 1].id <= cur[r].id
    BY <1>1, <1>6, <1>7
  <2> QED
    BY <1>7, <1>8, <2>1, <2>2
<1>12. n + 1 \in DOMAIN received'[r] /\ 1..n \subseteq DOMAIN received'[r]
  BY <1>5, <1>7
<1> QED
  BY <1>5, <1>6, <1>7, <1>10, <1>11, <1>12

LEMMA ForwardPost ==
  ASSUME TypeOK, NEW r \in Rules, RuleInv(r), Post(r) \/ PostFails(r)
  PROVE  RuleInv(r)' /\ UNCHANGED <<log, life, cm>>
<1> USE DEF RuleInv, OrderInv, StartInv, Running
<1>1. /\ pc[r] = "post" /\ batch[r] = <<cur[r].id>>
      /\ UNCHANGED <<log, cm, cur, since, life>>
  BY DEF Post, PostFails, outside
<1>2. Len(batch[r]) = 1
  BY <1>1
<1>3. pc'[r] \in {"save", "poll"}
  BY <1>2 DEF Post, PostFails, Goto, TypeOK
<1>4. CASE Receive(r, Head(batch[r]))
  <2>1. \A i \in DOMAIN received'[r] : received'[r][i].life <= life' /\ received'[r][i].id <= cur'[r].id
    BY <1>1, <1>4, ForwardReceive
  <2> QED
    BY <1>1, <1>3, <1>4, <2>1, ForwardReceive
<1>5. CASE UNCHANGED received
  <2>1. \A i \in DOMAIN received[r] : received[r][i].id \in Nat
    BY ReceivedType
  <2>2. cur[r].id \in Nat
    BY DEF TypeOK, Position
  <2>3. OrderInv(r)'
    BY <1>1, <1>3, <1>5, <2>1, <2>2
  <2> QED
    BY <1>1, <1>3, <1>5, <2>3 DEF InOrderOf
<1> QED
  BY <1>1, <1>4, <1>5 DEF Post, PostFails

LEMMA ForwardSave ==
  ASSUME TypeOK, NEW r \in Rules, RuleInv(r), Save(r)
  PROVE  RuleInv(r)' /\ UNCHANGED <<log, life>> /\ (cm.exists => cm'.exists)
<1> USE DEF RuleInv, OrderInv, InOrderOf, StartInv, Running
<1>1. CASE Fails /\ Return(r)
  <2>1. /\ pc'[r] = "ended"
        /\ UNCHANGED <<log, cm, cur, batch, received, lost, skipped, since, life>>
    BY <1>1 DEF Return, Goto, TypeOK, outside
  <2> QED
    BY <2>1
<1>2. CASE ~(Fails /\ Return(r))
  <2>1. /\ pc[r] = "save" /\ pc'[r] = "poll" /\ cm'.data[r] = cur[r] /\ cm'.exists = cm.exists
        /\ UNCHANGED <<log, cur, batch, received, lost, skipped, since, life>>
    <3>1. /\ pc[r] = "save" /\ cm' = [cm EXCEPT !.data[r] = cur[r]] /\ Goto(r, "poll")
          /\ UNCHANGED <<outside, cur, batch, received, lost, skipped, since, life>>
      BY <1>2 DEF Save
    <3>2. cm \in [exists : BOOLEAN, data : [Rules -> Position]]
          /\ pc \in [Rules -> Labels]
      BY DEF TypeOK, Labels
    <3> QED
      BY <3>1, <3>2 DEF Goto, outside
  <2> QED
    BY <2>1
<1> QED
  BY <1>1, <1>2

LEMMA ForwardNext == TypeOK /\ ForwardInv /\ [Next]_vars => ForwardInv'
<1> SUFFICES ASSUME TypeOK, ForwardInv, [Next]_vars PROVE ForwardInv'
  OBVIOUS
<1>1. CASE Tick \/ Restart \/ Crash \/ \E r \in Rules : Deliver(r)
  BY <1>1, ForwardOutside
<1>2. ASSUME NEW r \in Rules, Step(r) PROVE ForwardInv'
  <2>0. \A q \in Rules : RuleInv(q)
    BY DEF ForwardInv
  <2>1. CASE PollFails(r)
    <3>1. \A q \in Rules : pc'[q] = "down" /\ UNCHANGED <<log, cm, received, lost, skipped, since, life>>
      BY <2>1 DEF PollFails, Killed, outside
    <3> QED
      BY <2>0, <3>1 DEF ForwardInv, RuleInv, OrderInv, InOrderOf, StartInv, Running
  <2>2. CASE ~PollFails(r)
    <3>1. OthersUnchanged(r)
      BY <1>2, <2>2, TypeParts, TypeStep
    <3>2. RuleInv(r)' /\ UNCHANGED <<log, life>> /\ (cm.exists => cm'.exists)
      BY <1>2, <2>0, <2>2, ForwardStart, ForwardPoll, ForwardPost, ForwardSave DEF Step
    <3>3. \A q \in Rules \ {r} : RuleInv(q)'
      BY <2>0, <3>1, <3>2, ForwardOthers
    <3> QED
      BY <3>2, <3>3 DEF ForwardInv
  <2> QED
    BY <2>1, <2>2
<1>3. CASE UNCHANGED vars
  BY <1>3 DEF vars, ForwardInv, RuleInv, OrderInv, InOrderOf, StartInv, Running
<1> QED
  BY <1>1, <1>2, <1>3 DEF Next

LEMMA ForwardInvariant == Safety => [](TypeOK /\ ForwardInv)
<1>1. TypeOK /\ ForwardInv /\ [Next]_vars => (TypeOK /\ ForwardInv)'
  BY TypeNext, ForwardNext
<1> QED
  BY <1>1, TypeInit, ForwardInit, PTL DEF Safety

\* The target receives the deliveries of a webhook in their order, and one of them twice
\* only from two lives of the process, wherever it is killed and whatever request fails.
THEOREM DeliveriesInOrder == Safety => []InOrder
<1>1. ForwardInv => InOrder
  BY DEF ForwardInv, RuleInv, InOrderOf, InOrder
<1> QED
  BY <1>1, ForwardInvariant, PTL

LEMMA ReceivesRecent ==
  ASSUME TypeOK, ForwardInv, Next, NEW q \in Rules, received'[q] # received[q]
  PROVE  log[q][Last(received'[q]).id] >= since[q]
<1>1. PICK r \in Rules : pc[r] = "post" /\ Receive(r, Head(batch[r]))
  BY DEF Next, Tick, Restart, Crash, Killed, Deliver, Step, FindHook, GetCheckpoint, CreateCheckpoint,
     StartAt, Return, Poll, PollFails, Post, PostFails, Save
<1>2. q = r /\ pc[q] = "post"
  BY <1>1 DEF Receive, TypeOK
<1>3. batch[q] = <<cur[q].id>> /\ log[q][cur[q].id] >= since[q]
  BY <1>2 DEF ForwardInv, RuleInv, OrderInv, StartInv
<1>4. received'[q] = Append(received[q], [id |-> cur[q].id, life |-> life])
  BY <1>1, <1>2, <1>3 DEF Receive, TypeOK
<1>5. received[q] \in Seq([id : Nat, life : Nat])
  BY DEF TypeOK
<1>6. Last(received'[q]).id = cur[q].id
  BY <1>4, <1>5 DEF Last
<1> QED
  BY <1>3, <1>6

\* A rule that starts without a checkpoint forwards nothing that was delivered before it
\* started.
THEOREM OnlyRecent == Safety => NothingOld
<1>1. TypeOK /\ ForwardInv /\ [Next]_vars =>
        [\A r \in Rules : received'[r] # received[r]
           => log[r][Last(received'[r]).id] >= since[r]]_vars
  BY ReceivesRecent
<1> QED
  BY <1>1, ForwardInvariant, PTL DEF Safety, NothingOld

-----------------------------------------------------------------------------
(* What a checkpoint is past.  No position is ahead of the clock, so that a  *)
(* delivery still to come is new to it, and everything that a position is    *)
(* past is accounted for, or waits in the batch.                             *)

Excused(r, d) ==
    \/ log[r][d] < since[r]
    \/ d \in lost[r] \union skipped[r]
    \/ \E i \in DOMAIN received[r] : received[r][i].id = d

Past(r, d, pos) == Processed([id |-> d, at |-> log[r][d]], pos)

AccountInv(r) ==
    /\ cm.data[r].at <= now /\ cur[r].at <= now /\ since[r] <= now
    /\ \A d \in DOMAIN log[r] :
          /\ log[r][d] <= now
          /\ Past(r, d, cm.data[r]) => Excused(r, d)
          /\ pc[r] \in Running /\ Past(r, d, cur[r]) => Excused(r, d) \/ d \in ToSet(batch[r])

LEMMA AccountInit == Init => \A r \in Rules : AccountInv(r)
<1> SUFFICES ASSUME Init, NEW r \in Rules PROVE AccountInv(r)
  OBVIOUS
<1>1. /\ log[r] = <<>> /\ cm.data[r] = NoPosition /\ cur[r] = NoPosition /\ since[r] = 0
      /\ now = 1
  BY DEF Init
<1> QED
  BY <1>1 DEF AccountInv, NoPosition

\* The log grows at its end, with the time of the clock.
LEMMA LogGrows ==
  ASSUME TypeOK, [Next]_vars, NEW r \in Rules
  PROVE  /\ now \in Nat /\ now' \in Nat /\ now <= now'
         /\ DOMAIN log[r] \subseteq DOMAIN log'[r]
         /\ \A d \in DOMAIN log[r] : log'[r][d] = log[r][d] /\ log[r][d] \in Nat
         /\ \A d \in DOMAIN log'[r] \ DOMAIN log[r] :
               log'[r][d] = now /\ d > Len(log[r]) /\ d \in Nat /\ UNCHANGED <<cm, cur, pc, batch>>
<1>1. now \in 1..MaxTime /\ log \in [Rules -> Seq(1..MaxTime)] /\ log[r] \in Seq(1..MaxTime)
  BY DEF TypeOK
<1>2. /\ Len(log[r]) \in Nat /\ DOMAIN log[r] = 1..Len(log[r])
      /\ \A d \in DOMAIN log[r] : log[r][d] \in Nat
  BY <1>1
<1>3. CASE log' = log /\ now' \in {now, now + 1}
  BY <1>1, <1>2, <1>3
<1>4. ASSUME NEW q \in Rules, Deliver(q)
      PROVE  /\ now' = now /\ UNCHANGED <<cm, cur, pc, batch>>
             /\ log'[r] = log[r] \/ log'[r] = Append(log[r], now)
  BY <1>1, <1>4 DEF Deliver
<1>5. CASE \E q \in Rules : Deliver(q)
  <2>1. /\ now' = now /\ UNCHANGED <<cm, cur, pc, batch>>
        /\ log'[r] = log[r] \/ log'[r] = Append(log[r], now)
    BY <1>4, <1>5
  <2>2. CASE log'[r] = log[r]
    BY <1>1, <1>2, <2>1, <2>2
  <2>3. CASE log'[r] = Append(log[r], now)
    <3>1. /\ DOMAIN log'[r] = 1..(Len(log[r]) + 1) /\ log'[r][Len(log[r]) + 1] = now
          /\ \A d \in 1..Len(log[r]) : log'[r][d] = log[r][d]
      BY <1>1, <1>2, <2>3
    <3>2. \A d \in DOMAIN log'[r] \ DOMAIN log[r] : d = Len(log[r]) + 1
      BY <1>2, <3>1
    <3> QED
      BY <1>1, <1>2, <2>1, <3>1, <3>2
  <2> QED
    BY <2>1, <2>2, <2>3
<1>6. CASE \E q \in Rules : Step(q)
  <2>1. UNCHANGED <<now, log>>
    BY <1>6 DEF Step, FindHook, GetCheckpoint, CreateCheckpoint, StartAt, Return, Poll, PollFails,
       Killed, Post, PostFails, Save, outside
  <2> QED
    BY <1>3, <2>1
<1>7. CASE Tick \/ Restart \/ Crash \/ UNCHANGED vars
  BY <1>3, <1>7 DEF Tick, Restart, Crash, Killed, vars, outside
<1> QED
  BY <1>5, <1>6, <1>7 DEF Next

\* Nothing that is accounted for is forgotten.
LEMMA StaysExcused ==
  ASSUME TypeOK, TypeOK', [Next]_vars, NEW r \in Rules, AccountInv(r),
         NEW d \in DOMAIN log[r], Excused(r, d)
  PROVE  Excused(r, d)'
<1>1. log'[r][d] = log[r][d] /\ log[r][d] \in Nat
  BY LogGrows
<1>2. since[r] \in Nat /\ since'[r] \in Nat /\ since[r] <= since'[r]
  <2>1. \/ since' = since
        \/ \E q \in Rules : since' = [since EXCEPT ![q] = now]
    BY DEF Next, Tick, Restart, Crash, Killed, Deliver, Step, FindHook, GetCheckpoint,
       CreateCheckpoint, StartAt, Return, Poll, PollFails, Post, PostFails, Save, vars
  <2>2. since \in [Rules -> 0..MaxTime] /\ now \in 1..MaxTime
    BY DEF TypeOK
  <2> QED
    BY <2>1, <2>2 DEF AccountInv
<1>3. lost[r] \subseteq lost'[r]
  <2>1. CASE \E q \in Rules : PostFails(q)
    <3>1. PICK q \in Rules : PostFails(q)
      BY <2>1
    <3>2. PICK new : lost' = [lost EXCEPT ![q] = @ \union new]
      BY <3>1 DEF PostFails
    <3> QED
      BY <3>2 DEF TypeOK
  <2>2. CASE ~ \E q \in Rules : PostFails(q)
    <3>1. lost' = lost
      BY <2>2 DEF Next, Tick, Restart, Crash, Killed, Deliver, Step, FindHook, GetCheckpoint,
         CreateCheckpoint, StartAt, Return, Poll, PollFails, Post, Save, vars
    <3> QED
      BY <3>1
  <2> QED
    BY <2>1, <2>2
<1>4. skipped[r] \subseteq skipped'[r]
  <2>1. CASE \E q \in Rules : Poll(q)
    <3>1. PICK q \in Rules : Poll(q)
      BY <2>1
    <3>2. PICK new : skipped' = [skipped EXCEPT ![q] = @ \union new]
      BY <3>1 DEF Poll
    <3> QED
      BY <3>2 DEF TypeOK
  <2>2. CASE ~ \E q \in Rules : Poll(q)
    <3>1. skipped' = skipped
      BY <2>2 DEF Next, Tick, Restart, Crash, Killed, Deliver, Step, FindHook, GetCheckpoint,
         CreateCheckpoint, StartAt, Return, PollFails, Post, PostFails, Save, vars
    <3> QED
      BY <3>1
  <2> QED
    BY <2>1, <2>2
<1>5. ASSUME NEW i \in DOMAIN received[r] PROVE i \in DOMAIN received'[r] /\ received'[r][i] = received[r][i]
  <2>1. received' = received \/ \E q \in Rules : \E id : Receive(q, id)
    BY DEF Next, Tick, Restart, Crash, Killed, Deliver, Step, FindHook, GetCheckpoint,
       CreateCheckpoint, StartAt, Return, Poll, PollFails, Post, PostFails, Save, vars
  <2>2. received'[r] = received[r] \/ \E x : received'[r] = Append(received[r], x)
    <3>1. CASE received' = received
      BY <3>1
    <3>2. ASSUME NEW q \in Rules, NEW id, Receive(q, id)
          PROVE  received'[r] = received[r] \/ \E x : received'[r] = Append(received[r], x)
      <4> DEFINE x == [id |-> id, life |-> life]
      <4>1. received' = [received EXCEPT ![q] = Append(received[q], x)]
        BY <3>2 DEF Receive
      <4> HIDE DEF x
      <4>2. received'[r] = IF r = q THEN Append(received[q], x) ELSE received[r]
        BY <4>1 DEF TypeOK
      <4> QED
        BY <4>2
    <3> QED
      BY <2>1, <3>1, <3>2
  <2>3. received[r] \in Seq([id : Nat, life : Nat]) /\ DOMAIN received[r] = 1..Len(received[r])
    BY ReceivedType
  <2>4. ASSUME NEW x, received'[r] = Append(received[r], x)
        PROVE  i \in DOMAIN received'[r] /\ received'[r][i] = received[r][i]
    BY <2>3, <2>4 DEF Append
  <2> QED
    BY <2>2, <2>4
<1> QED
  BY <1>1, <1>2, <1>3, <1>4, <1>5 DEF Excused

\* A position that does not move is past the same deliveries, and not past a new one.
LEMMA SamePast ==
  ASSUME TypeOK, [Next]_vars, NEW r \in Rules, NEW pos \in Position, pos.at <= now,
         pos.id <= Len(log[r]), NEW d \in DOMAIN log'[r],
         Processed([id |-> d, at |-> log'[r][d]], pos)
  PROVE  d \in DOMAIN log[r] /\ Past(r, d, pos)
<1>1. /\ now \in Nat /\ pos.at \in Nat /\ pos.id \in Nat /\ log[r] \in Seq(1..MaxTime)
  BY LogGrows DEF Position, TypeOK
<1>2. Len(log[r]) \in Nat
  BY <1>1
<1>3. CASE d \in DOMAIN log[r]
  BY <1>3, LogGrows DEF Past
<1>4. CASE d \notin DOMAIN log[r]
  <2>1. log'[r][d] = now /\ d > Len(log[r]) /\ d \in Nat
    BY <1>4, LogGrows
  <2> QED
    BY <1>1, <1>2, <2>1 DEF Processed
<1> QED
  BY <1>3, <1>4

\* What a step has to show of the two positions.
LEMMA AccountStep ==
  ASSUME TypeOK, TypeOK', [Next]_vars, NEW r \in Rules, AccountInv(r),
         cm'.data[r].at <= now, cur'[r].at <= now, since'[r] <= now,
         cm'.data[r].id <= Len(log[r]), cur'[r].id <= Len(log[r]),
         \A d \in DOMAIN log[r] : Past(r, d, cm'.data[r]) => Excused(r, d)',
         pc'[r] \in Running => \A d \in DOMAIN log[r] :
                                 Past(r, d, cur'[r]) => Excused(r, d)' \/ d \in ToSet(batch'[r])
  PROVE  AccountInv(r)'
<1>1. cm'.data[r] \in Position /\ cur'[r] \in Position /\ since'[r] \in Nat
  BY DEF TypeOK
<1>2. now \in Nat /\ now' \in Nat /\ now <= now'
  BY LogGrows
<1>3. cm'.data[r].at <= now' /\ cur'[r].at <= now' /\ since'[r] <= now'
  BY <1>1, <1>2 DEF Position
<1>4. ASSUME NEW d \in DOMAIN log'[r] PROVE log'[r][d] <= now'
  <2>1. CASE d \in DOMAIN log[r]
    BY <1>2, <2>1, LogGrows DEF AccountInv
  <2>2. CASE d \notin DOMAIN log[r]
    BY <1>2, <2>2, LogGrows
  <2> QED
    BY <2>1, <2>2
<1>5. ASSUME NEW d \in DOMAIN log'[r], Processed([id |-> d, at |-> log'[r][d]], cm'.data[r])
      PROVE  Excused(r, d)'
  <2>1. d \in DOMAIN log[r] /\ Past(r, d, cm'.data[r])
    BY <1>1, <1>5, SamePast
  <2> QED
    BY <2>1
<1>6. ASSUME NEW d \in DOMAIN log'[r], Processed([id |-> d, at |-> log'[r][d]], cur'[r]),
             pc'[r] \in Running
      PROVE  Excused(r, d)' \/ d \in ToSet(batch'[r])
  <2>1. d \in DOMAIN log[r] /\ Past(r, d, cur'[r])
    BY <1>1, <1>6, SamePast
  <2> QED
    BY <1>6, <2>1
<1> QED
  BY <1>3, <1>4, <1>5, <1>6 DEF AccountInv, Past

\* Where the two positions are.
LEMMA Positions ==
  ASSUME TypeOK, NEW r \in Rules, AccountInv(r)
  PROVE  /\ cm.data[r] \in Position /\ cur[r] \in Position
         /\ cm.data[r].at <= now /\ cur[r].at <= now /\ since[r] <= now
         /\ cm.data[r].id <= Len(log[r]) /\ cur[r].id <= Len(log[r])
         /\ now \in Nat /\ Len(log[r]) \in Nat
<1>1. log[r] \in Seq(1..MaxTime) /\ cm.data[r] \in Position /\ cur[r] \in Position
      /\ cm.data[r].id \in 0..Len(log[r]) /\ cur[r].id \in 0..Len(log[r]) /\ now \in 1..MaxTime
  BY DEF TypeOK
<1> QED
  BY <1>1 DEF AccountInv

\* A step that moves no position, except that a position in memory may be lost.
LEMMA AccountKept ==
  ASSUME TypeOK, TypeOK', [Next]_vars, NEW r \in Rules, AccountInv(r),
         cm'.data[r] = cm.data[r], since'[r] = since[r], cur'[r] \in {cur[r], NoPosition},
         pc'[r] \in Running => pc[r] \in Running /\ cur'[r] = cur[r] /\ batch'[r] = batch[r]
  PROVE  AccountInv(r)'
<1>1. cur'[r].at <= now /\ cur'[r].id <= Len(log[r])
  BY Positions DEF NoPosition
<1>2. \A d \in DOMAIN log[r] : Past(r, d, cm'.data[r]) => Excused(r, d)'
  BY StaysExcused DEF AccountInv
<1>3. pc'[r] \in Running => \A d \in DOMAIN log[r] :
        Past(r, d, cur'[r]) => Excused(r, d)' \/ d \in ToSet(batch'[r])
  BY StaysExcused DEF AccountInv
<1> QED
  BY <1>1, <1>2, <1>3, AccountStep, Positions

\* Run starts at a saved position, or now.
LEMMA AccountStart ==
  ASSUME TypeOK, TypeOK', [Next]_vars, NEW r \in Rules, AccountInv(r),
         FindHook(r) \/ GetCheckpoint(r) \/ CreateCheckpoint(r)
  PROVE  AccountInv(r)'
<1>0. /\ pc \in [Rules -> Labels] /\ cur \in [Rules -> Position] /\ since \in [Rules -> 0..MaxTime]
      /\ cm \in [exists : BOOLEAN, data : [Rules -> Position]]
  BY DEF TypeOK, Labels
<1>1. ASSUME NEW pos, StartAt(r, pos), cm'.data[r] = cm.data[r],
             pos = cm.data[r] \/ pos = [at |-> now, id |-> 0]
      PROVE  AccountInv(r)'
  <2>1. /\ cur'[r] = pos
        /\ since'[r] = IF pos.id = 0 /\ pos.at = now THEN now ELSE since[r]
    BY <1>0, <1>1 DEF StartAt
  <2>2. /\ cur'[r].at <= now /\ cur'[r].id <= Len(log[r]) /\ since'[r] <= now
        /\ cm'.data[r].at <= now /\ cm'.data[r].id <= Len(log[r])
    BY <1>1, <2>1, Positions
  <2>3. \A d \in DOMAIN log[r] : Past(r, d, cm'.data[r]) => Excused(r, d)'
    BY <1>1, StaysExcused DEF AccountInv
  <2>4. ASSUME NEW d \in DOMAIN log[r], Past(r, d, cur'[r]) PROVE Excused(r, d)'
    <3>1. CASE pos = cm.data[r]
      BY <1>1, <2>1, <2>3, <2>4, <3>1
    <3>2. CASE pos = [at |-> now, id |-> 0]
      <4>1. log[r][d] < now /\ since'[r] = now
        BY <2>1, <2>4, <3>2 DEF Past, Processed
      <4>2. log'[r][d] = log[r][d]
        BY LogGrows
      <4> QED
        BY <4>1, <4>2 DEF Excused
    <3> QED
      BY <1>1, <3>1, <3>2
  <2> QED
    BY <2>2, <2>3, <2>4, AccountStep
<1>2. ASSUME cm'.data[r] = cm.data[r], UNCHANGED <<cur, since>>, pc'[r] \notin Running
      PROVE  AccountInv(r)'
  BY <1>2, AccountKept
<1>3. CASE Return(r)
  BY <1>0, <1>2, <1>3 DEF Return, Goto, Running
<1>4. CASE FindHook(r)
  BY <1>0, <1>2, <1>3, <1>4 DEF FindHook, Goto, Running
<1>5. CASE GetCheckpoint(r)
  <2>1. CASE StartAt(r, Saved(r)) /\ UNCHANGED cm
    <3>1. Saved(r) = cm.data[r] \/ Saved(r) = [at |-> now, id |-> 0]
      BY DEF Saved
    <3> QED
      BY <1>1, <2>1, <3>1
  <2>2. CASE Goto(r, "create") /\ UNCHANGED <<cm, cur, since>>
    BY <1>0, <1>2, <2>2 DEF Goto, Running
  <2> QED
    BY <1>3, <1>5, <2>1, <2>2 DEF GetCheckpoint
<1>6. CASE CreateCheckpoint(r)
  <2>1. CASE cm' = [cm EXCEPT !.exists = TRUE] /\ StartAt(r, [at |-> now, id |-> 0])
    <3>1. cm'.data[r] = cm.data[r]
      BY <1>0, <2>1
    <3> QED
      BY <1>1, <2>1, <3>1
  <2> QED
    BY <1>3, <1>6, <2>1 DEF CreateCheckpoint
<1> QED
  BY <1>4, <1>5, <1>6

\* A poll moves the position to the latest delivery.  The ones that it passes over are on
\* record as skipped.
LEMMA AccountPoll ==
  ASSUME TypeOK, TypeOK', [Next]_vars, NEW r \in Rules, AccountInv(r), Poll(r)
  PROVE  AccountInv(r)'
<1>1. /\ pc[r] = "poll" /\ batch[r] = <<>> /\ UNCHANGED <<log, cm, since>>
  BY PollFinds DEF Poll, TypeOK
<1>2. \A d \in DOMAIN log[r] : Past(r, d, cm'.data[r]) => Excused(r, d)'
  BY <1>1, StaysExcused DEF AccountInv
<1>3. \A d \in DOMAIN log[r] : Past(r, d, cur[r]) => Excused(r, d)'
  <2>1. ToSet(batch[r]) = {}
    BY <1>1 DEF ToSet
  <2> QED
    BY <1>1, <2>1, StaysExcused DEF AccountInv, Running
<1>4. ASSUME NEW d \in DOMAIN log[r], ~ Past(r, d, cur[r])
      PROVE  d \in skipped'[r] \/ d \in ToSet(batch'[r])
  <2>1. PICK s : /\ batch' = [batch EXCEPT ![r] = s.found]
                 /\ skipped' = [skipped EXCEPT ![r] = @ \union (Unseen(r) \ ToSet(s.found))]
    BY DEF Poll
  <2>2. batch'[r] = s.found /\ skipped'[r] = skipped[r] \union (Unseen(r) \ ToSet(s.found))
    BY <2>1 DEF TypeOK
  <2>3. d \in Unseen(r)
    BY <1>4 DEF Unseen, Past
  <2> QED
    BY <2>2, <2>3
<1>5. \A d \in DOMAIN log[r] : Excused(r, d)' \/ d \in ToSet(batch'[r])
  BY <1>3, <1>4 DEF Excused
<1>6. cur'[r].at <= now /\ cur'[r].id <= Len(log[r])
  <2>1. CASE cur'[r] = cur[r]
    BY <2>1, Positions
  <2>2. CASE cur'[r] = Latest(r) /\ Len(log[r]) # 0
    <3>1. log[r] \in Seq(1..MaxTime)
      BY DEF TypeOK
    <3>2. Len(log[r]) \in DOMAIN log[r] /\ Len(log[r]) \in Nat
      BY <2>2, <3>1
    <3> QED
      BY <2>2, <3>2 DEF Latest, AccountInv
  <2> QED
    BY <2>1, <2>2, PollFinds
<1>7. cm'.data[r].at <= now /\ cm'.data[r].id <= Len(log[r]) /\ since'[r] <= now
  BY <1>1, Positions
<1> QED
  BY <1>2, <1>5, <1>6, <1>7, AccountStep

LEMMA AccountPost ==
  ASSUME TypeOK, TypeOK', ForwardInv, [Next]_vars, NEW r \in Rules, AccountInv(r),
         Post(r) \/ PostFails(r)
  PROVE  AccountInv(r)'
<1>1. pc[r] = "post" /\ batch[r] = <<cur[r].id>> /\ UNCHANGED <<log, cm, cur, since>>
  BY DEF Post, PostFails, outside, ForwardInv, RuleInv, OrderInv
<1>2. ToSet(batch[r]) = {cur[r].id}
  BY <1>1 DEF ToSet
<1>3. Excused(r, cur[r].id)'
  <2>1. CASE Receive(r, Head(batch[r]))
    <3>1. RuleInv(r)
      BY DEF ForwardInv
    <3>2. \E i \in DOMAIN received'[r] : received'[r][i].id = cur[r].id
      BY <1>1, <2>1, <3>1, ForwardReceive
    <3> QED
      BY <1>1, <3>2 DEF Excused
  <2>2. CASE lost' = [lost EXCEPT ![r] = @ \union ToSet(batch[r])]
    <3>1. cur[r].id \in lost'[r]
      BY <1>2, <2>2 DEF TypeOK
    <3> QED
      BY <1>1, <3>1 DEF Excused
  <2> QED
    BY <2>1, <2>2 DEF Post, PostFails
<1>4. \A d \in DOMAIN log[r] : Past(r, d, cm'.data[r]) => Excused(r, d)'
  BY <1>1, StaysExcused DEF AccountInv
<1>5. \A d \in DOMAIN log[r] : Past(r, d, cur'[r]) => Excused(r, d)'
  BY <1>1, <1>2, <1>3, StaysExcused DEF AccountInv, Running
<1> QED
  BY <1>1, <1>4, <1>5, AccountStep, Positions

\* The position is saved when its batch has been posted.
LEMMA AccountSave ==
  ASSUME TypeOK, TypeOK', [Next]_vars, NEW r \in Rules, AccountInv(r), Save(r)
  PROVE  AccountInv(r)'
<1>1. CASE Return(r)
  <2>1. pc'[r] \notin Running /\ UNCHANGED <<cm, cur, since>>
    BY <1>1 DEF Return, Goto, TypeOK, Running
  <2> QED
    BY <2>1, AccountKept
<1>2. CASE cm' = [cm EXCEPT !.data[r] = cur[r]] /\ UNCHANGED <<cur, since>>
  <2>1. cm'.data[r] = cur[r] /\ pc[r] = "save"
    BY <1>2 DEF TypeOK, Save
  <2>2. ToSet(batch[r]) = {}
    <3>1. batch[r] = <<>>
      BY <2>1 DEF TypeOK
    <3> QED
      BY <3>1 DEF ToSet
  <2>3. \A d \in DOMAIN log[r] : Past(r, d, cur[r]) => Excused(r, d)'
    BY <2>1, <2>2, StaysExcused DEF AccountInv, Running
  <2> QED
    BY <1>2, <2>1, <2>3, AccountStep, Positions
<1> QED
  BY <1>1, <1>2 DEF Save

LEMMA AccountNext ==
  ASSUME TypeOK, TypeOK', ForwardInv, \A r \in Rules : AccountInv(r), [Next]_vars
  PROVE  \A r \in Rules : AccountInv(r)'
<1> SUFFICES ASSUME NEW q \in Rules PROVE AccountInv(q)'
  OBVIOUS
<1>1. CASE UNCHANGED <<cm, since, cur, pc, batch>>
  BY <1>1, AccountKept
<1>2. CASE UNCHANGED <<cm, since>> /\ cur'[q] \in {cur[q], NoPosition} /\ pc'[q] \notin Running
  BY <1>2, AccountKept
<1>3. CASE Tick \/ (\E r \in Rules : Deliver(r)) \/ UNCHANGED vars
  BY <1>1, <1>3 DEF Tick, Deliver, vars
<1>4. CASE Restart \/ Killed
  BY <1>2, <1>4 DEF Restart, Killed, Running
<1>5. ASSUME NEW r \in Rules, Step(r) PROVE AccountInv(q)'
  <2>1. CASE PollFails(r)
    BY <1>4, <2>1 DEF PollFails
  <2>2. CASE ~ PollFails(r) /\ q # r
    <3>1. OthersUnchanged(r)
      BY <1>5, <2>2, TypeParts, TypeStep
    <3> QED
      BY <2>2, <3>1, AccountKept DEF OthersUnchanged
  <2>3. CASE ~ PollFails(r) /\ q = r
    BY <1>5, <2>3, AccountStart, AccountPoll, AccountPost, AccountSave DEF Step
  <2> QED
    BY <2>1, <2>2, <2>3
<1> QED
  BY <1>3, <1>4, <1>5 DEF Next, Crash

\* Wherever the process is killed and whatever request fails, a delivery that a checkpoint
\* is past was received, or its POST has failed, or it is older than the rule's start, or a
\* poll has passed over it for a later one.
THEOREM CheckpointsFollow == Safety => []CheckpointFollowsPost
<1>1. (\A r \in Rules : AccountInv(r)) => CheckpointFollowsPost
  BY DEF AccountInv, Past, Excused, CheckpointFollowsPost
<1>2. /\ TypeOK /\ ForwardInv /\ (\A r \in Rules : AccountInv(r)) /\ TypeOK' /\ [Next]_vars
      => (\A r \in Rules : AccountInv(r))'
  BY AccountNext
<1> QED
  BY <1>1, <1>2, AccountInit, ForwardInvariant, TypeInit, TypeNext, PTL DEF Safety

=============================================================================
