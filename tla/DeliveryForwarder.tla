------------------------- MODULE DeliveryForwarder -------------------------
(***************************************************************************)
(* The hook delivery forwarder: one goroutine per rule polls the log of    *)
(* the deliveries of a GitHub webhook, posts the new ones to the webhook   *)
(* server and keeps its position in a ConfigMap that all rules share.      *)
(*                                                                         *)
(*   pkg/hookdeliveryforwarder/forwarder.go      FindHook, Poll ... Save   *)
(*   pkg/hookdeliveryforwarder/multiforwarder.go Restart (one per rule)    *)
(*   pkg/hookdeliveryforwarder/configmap         GetCheckpoint, Create...  *)
(*                                                                         *)
(* A panic of one goroutine ends the process and Kubernetes restarts it. A *)
(* goroutine that returns is not restarted: MultiForwarder waits for all   *)
(* of them before it reports the first error.                              *)
(*                                                                         *)
(* Abstractions.                                                           *)
(*  - A delivery is its place in the log, which is its ID; GitHub lists    *)
(*    the latest first, in pages whose size shows nowhere.  One poll reads *)
(*    the log as it is when the poll starts.                               *)
(*  - The ConfigMap is read as it is.  Patches of two rules change         *)
(*    different keys.                                                      *)
(*  - A poll that the client answers from its HTTP cache is a poll made    *)
(*    earlier: no step between the two reads the log or the clock.         *)
(*  - An answer of the target with an error status is an answer: only      *)
(*    transport errors are seen.                                           *)
(***************************************************************************)
EXTENDS Integers, Sequences, FiniteSets, SequencesExt, FiniteSetsExt

CONSTANTS
    Rules,          \* the rules, one webhook each
    MaxDeliveries,  \* bound of deliveries, of all webhooks together
    MaxTime,        \* bound of the clock
    MaxCrashes,     \* bound of crashes from outside
    MaxFails        \* bound of failed requests to GitHub, the target and Kubernetes

ASSUME ForwarderAssumption ==
    /\ Rules # {} /\ MaxTime \in Nat \ {0}
    /\ MaxDeliveries \in Nat /\ MaxCrashes \in Nat /\ MaxFails \in Nat

VARIABLES
    now,       \* the clock, from 1; 0 is the zero time
    hook,      \* per rule: the webhook exists
    log,       \* per rule: the times of its deliveries; a delivery's ID is its index
    cm,        \* the ConfigMap: [exists, data], a position per rule
    pc,        \* per rule: where Forwarder.Run is
    cur,       \* per rule: the position in memory
    batch,     \* per rule: the deliveries still to be posted
    received,  \* per rule: what the target has received, [id, life]
    lost,      \* per rule: deliveries whose POST failed on the way
    skipped,   \* per rule: deliveries that were new at a poll which did not find them
    since,     \* per rule: when it last started without a position
    life,      \* starts of the process so far
    crashes, fails

vars == <<now, hook, log, cm, pc, cur, batch, received, lost, skipped, since, life, crashes, fails>>
outside == <<now, hook, log>>

NoPosition == [at |-> 0, id |-> 0]

Init ==
    /\ now = 1
    /\ hook \in [Rules -> BOOLEAN]
    /\ log = [r \in Rules |-> <<>>]
    /\ cm = [exists |-> FALSE, data |-> [r \in Rules |-> NoPosition]]
    /\ pc = [r \in Rules |-> "down"]
    /\ cur = [r \in Rules |-> NoPosition]
    /\ batch = [r \in Rules |-> <<>>]
    /\ received = [r \in Rules |-> <<>>]
    /\ lost = [r \in Rules |-> {}]
    /\ skipped = [r \in Rules |-> {}]
    /\ since = [r \in Rules |-> 0]
    /\ life = 0 /\ crashes = 0 /\ fails = 0

---------------------------------------------------------------------------
(* GitHub and time *)

Deliver(r) ==
    /\ hook[r] /\ MapThenSumSet(LAMBDA x : Len(log[x]), Rules) < MaxDeliveries
    /\ log' = [log EXCEPT ![r] = Append(@, now)]
    /\ UNCHANGED <<now, hook, cm, pc, cur, batch, received, lost, skipped, since, life, crashes, fails>>

Tick ==
    /\ now < MaxTime
    /\ now' = now + 1
    /\ UNCHANGED <<hook, log, cm, pc, cur, batch, received, lost, skipped, since, life, crashes, fails>>

Fails == fails < MaxFails /\ fails' = fails + 1

---------------------------------------------------------------------------
(* The process *)

\* Every goroutine has ended, or the process was killed: Kubernetes starts it.
Restart ==
    /\ \A r \in Rules : pc[r] \in {"down", "ended"}
    /\ pc' = [r \in Rules |-> "hooks"]
    /\ life' = life + 1
    /\ UNCHANGED <<outside, cm, cur, batch, received, lost, skipped, since, crashes, fails>>

Killed ==
    /\ pc' = [r \in Rules |-> "down"]
    /\ cur' = [r \in Rules |-> NoPosition]
    /\ batch' = [r \in Rules |-> <<>>]
    /\ UNCHANGED <<outside, cm, received, lost, skipped, since, life>>

Crash ==
    /\ crashes < MaxCrashes
    /\ \E r \in Rules : pc[r] # "down"
    /\ crashes' = crashes + 1
    /\ Killed
    /\ UNCHANGED fails

Goto(r, label) == pc' = [pc EXCEPT ![r] = label]

\* Run returns an error: this goroutine ends, the others go on.
Return(r) ==
    /\ Goto(r, "ended")
    /\ UNCHANGED <<outside, cm, cur, batch, received, lost, skipped, since, life, crashes>>

---------------------------------------------------------------------------
(* Forwarder.Run of rule r *)

\* The first webhook of the repository is taken; if it has none one is created.
FindHook(r) ==
    /\ pc[r] = "hooks"
    /\ \/ /\ hook' = [hook EXCEPT ![r] = TRUE]
          /\ Goto(r, "get")
          /\ UNCHANGED <<now, log, cm, cur, batch, received, lost, skipped, since, life, crashes, fails>>
       \/ Fails /\ Return(r)

StartAt(r, pos) ==
    /\ Goto(r, "poll")
    /\ cur' = [cur EXCEPT ![r] = pos]
    /\ since' = IF pos.id = 0 /\ pos.at = now THEN [since EXCEPT ![r] = now] ELSE since
    /\ UNCHANGED <<outside, batch, received, lost, skipped, life, crashes, fails>>

\* A rule without a saved position starts at the beginning of the log.
SavedBug(r) == cm.data[r]

\* The saved position; a rule that has none starts now.
Saved(r) == IF cm.data[r].at = 0 THEN [at |-> now, id |-> 0] ELSE cm.data[r]

GetCheckpoint(r) ==
    /\ pc[r] = "get"
    /\ \/ cm.exists /\ StartAt(r, Saved(r)) /\ UNCHANGED cm
       \/ /\ ~ cm.exists
          /\ Goto(r, "create")
          /\ UNCHANGED <<outside, cm, cur, batch, received, lost, skipped, since, life, crashes, fails>>
       \/ Fails /\ Return(r)

\* The goroutine of another rule may have created the ConfigMap meanwhile.
CreateCheckpoint(r) ==
    /\ pc[r] = "create"
    /\ \/ /\ ~ cm.exists
          /\ cm' = [cm EXCEPT !.exists = TRUE]
          /\ StartAt(r, [at |-> now, id |-> 0])
       \/ cm.exists /\ Return(r) /\ UNCHANGED fails

\* The latest delivery first.
Listing(r) == Reverse([i \in DOMAIN log[r] |-> [id |-> i, at |-> log[r][i]]])

\* The IDs are not compared.
ProcessedBug(d, pos) == d.at < pos.at

\* The scan ends at the first delivery that the position is past.
Processed(d, pos) == d.at < pos.at \/ (pos.id # 0 /\ d.id <= pos.id)

\* The position after the first k deliveries of the listing: it moves with the scan.
Advanced(listing, pos, k) ==
    [at |-> Max({pos.at} \union {listing[i].at : i \in 1..k}),
     id |-> Max({pos.id} \union {listing[i].id : i \in 1..k})]

\* The last delivery of the listing is not looked at.
ScanBug(listing, pos) ==
    LET n == Max({k \in 0..Len(listing) : /\ k < Len(listing) \/ k = 0
                    /\ \A j \in 1..k : ~ Processed(listing[j], Advanced(listing, pos, j - 1))})
    IN [found |-> Reverse([j \in 1..n |-> listing[j].id]), pos |-> Advanced(listing, pos, n)]

\* The longest prefix of the listing in which each delivery is new to the position that
\* those before it have moved, the oldest first.  The delivery after a new one is older,
\* so at most one is found.
Scan(listing, pos) ==
    LET n == Max({k \in 0..Len(listing) :
                    \A j \in 1..k : ~ Processed(listing[j], Advanced(listing, pos, j - 1))})
    IN [found |-> Reverse([j \in 1..n |-> listing[j].id]), pos |-> Advanced(listing, pos, n)]

\* The deliveries that the position is not past.
Unseen(r) == {d \in DOMAIN log[r] : ~ Processed([id |-> d, at |-> log[r][d]], cur[r])}

\* The position is saved before the deliveries are posted.
PollBug(r) ==
    /\ pc[r] = "poll"
    /\ \E s \in {Scan(Listing(r), cur[r])} :
       /\ cur' = [cur EXCEPT ![r] = s.pos]
       /\ batch' = [batch EXCEPT ![r] = s.found]
       /\ Goto(r, IF s.found = <<>> THEN "save" ELSE "post")
       /\ skipped' = [skipped EXCEPT ![r] = @ \union (Unseen(r) \ ToSet(s.found))]
       /\ cm' = [cm EXCEPT !.data[r] = s.pos]
       /\ UNCHANGED <<outside, received, lost, since, life, crashes, fails>>

\* getUnprocessedDeliveries
Poll(r) ==
    /\ pc[r] = "poll"
    /\ \E s \in {Scan(Listing(r), cur[r])} :
       /\ cur' = [cur EXCEPT ![r] = s.pos]
       /\ batch' = [batch EXCEPT ![r] = s.found]
       /\ Goto(r, IF s.found = <<>> THEN "save" ELSE "post")
       /\ skipped' = [skipped EXCEPT ![r] = @ \union (Unseen(r) \ ToSet(s.found))]
       /\ UNCHANGED <<outside, cm, received, lost, since, life, crashes, fails>>

\* GitHub does not answer: the position is nil, and Update dereferences it.
PollFails(r) ==
    /\ pc[r] = "poll"
    /\ Fails
    /\ Killed
    /\ UNCHANGED crashes

Receive(r, id) == received' = [received EXCEPT ![r] = Append(@, [id |-> id, life |-> life])]

Post(r) ==
    /\ pc[r] = "post"
    /\ Receive(r, Head(batch[r]))
    /\ batch' = [batch EXCEPT ![r] = Tail(@)]
    /\ Goto(r, IF Len(batch[r]) = 1 THEN "save" ELSE "post")
    /\ UNCHANGED <<outside, cm, cur, lost, skipped, since, life, crashes, fails>>

\* The batch that failed is still there at the next poll.
PostFailsBug(r) ==
    /\ pc[r] = "post"
    /\ Fails
    /\ Goto(r, "poll")
    /\ UNCHANGED <<outside, cm, cur, batch, received, lost, skipped, since, life, crashes>>

\* After a transport error the next poll starts at the new position.  The target
\* may have received the request.
PostFails(r) ==
    /\ pc[r] = "post"
    /\ Fails
    /\ \/ Receive(r, Head(batch[r])) /\ lost' = [lost EXCEPT ![r] = @ \union ToSet(Tail(batch[r]))]
       \/ lost' = [lost EXCEPT ![r] = @ \union ToSet(batch[r])] /\ UNCHANGED received
    /\ batch' = [batch EXCEPT ![r] = <<>>]
    /\ Goto(r, "poll")
    /\ UNCHANGED <<outside, cm, cur, skipped, since, life, crashes>>

\* Checkpointer.Update, on every round
Save(r) ==
    /\ pc[r] = "save"
    /\ \/ /\ cm' = [cm EXCEPT !.data[r] = cur[r]]
          /\ Goto(r, "poll")
          /\ UNCHANGED <<outside, cur, batch, received, lost, skipped, since, life, crashes, fails>>
       \/ Fails /\ Return(r)

---------------------------------------------------------------------------
Step(r) ==
    \/ FindHook(r) \/ GetCheckpoint(r) \/ CreateCheckpoint(r)
    \/ Poll(r) \/ PollFails(r) \/ Post(r) \/ PostFails(r) \/ Save(r)

Next ==
    \/ Tick
    \/ Restart
    \/ Crash
    \/ \E r \in Rules : Deliver(r)
    \/ \E r \in Rules : Step(r)

\* Kubernetes restarts the process and its goroutines are scheduled.
Fairness ==
    /\ WF_vars(Restart)
    /\ \A r \in Rules : WF_vars(Step(r))

Safety == Init /\ [][Next]_vars
Spec == Safety /\ Fairness

---------------------------------------------------------------------------
(* Properties *)

Position == [at : 0..MaxTime, id : Nat]

\* Positions, batches and what the target has received are about deliveries that
\* GitHub has made, and a rule that waits has nothing left to post.
TypeOK ==
    /\ now \in 1..MaxTime /\ hook \in [Rules -> BOOLEAN]
    /\ log \in [Rules -> Seq(1..MaxTime)]
    /\ cm \in [exists : BOOLEAN, data : [Rules -> Position]]
    /\ pc \in [Rules -> {"down", "hooks", "get", "create", "poll", "post", "save", "ended"}]
    /\ cur \in [Rules -> Position] /\ since \in [Rules -> 0..MaxTime]
    /\ batch \in [Rules -> Seq(Nat)] /\ received \in [Rules -> Seq([id : Nat, life : Nat])]
    /\ lost \in [Rules -> SUBSET Nat] /\ skipped \in [Rules -> SUBSET Nat]
    /\ life \in Nat /\ crashes \in 0..MaxCrashes /\ fails \in 0..MaxFails
    /\ \A r \in Rules :
          /\ {cm.data[r].id, cur[r].id} \subseteq 0..Len(log[r])
          /\ lost[r] \union skipped[r] \union ToSet(batch[r]) \subseteq DOMAIN log[r]
          /\ \A i \in DOMAIN received[r] : received[r][i].id \in DOMAIN log[r]
          /\ pc[r] = "post" <=> batch[r] # <<>>

\* The target never receives an older delivery after a later one, and the same one
\* twice only from two lives of the process, whenever the process is killed between
\* the POST and the checkpoint (forwarder.go:133-168).
InOrder ==
    \A r \in Rules : \A i, j \in DOMAIN received[r] :
        i < j => \/ received[r][i].id < received[r][j].id
                 \/ /\ received[r][i].id = received[r][j].id
                    /\ received[r][i].life < received[r][j].life

\* A checkpoint is never ahead of the POST, wherever the process is killed: a delivery that
\* a restart will not look at again was received, or the one POST of it has failed, or it
\* was there before the rule started, or a poll has found a later one and passed over it
\* (forwarder.go:218-232 ends at the first delivery that is not newer than the one before).
CheckpointFollowsPost ==
    \A r \in Rules : \A d \in DOMAIN log[r] :
        Processed([id |-> d, at |-> log[r][d]], cm.data[r])
            => \/ log[r][d] < since[r]
               \/ d \in lost[r] \union skipped[r]
               \/ \E i \in DOMAIN received[r] : received[r][i].id = d

\* A rule that starts without a checkpoint forwards nothing that was delivered before it
\* started (configmap/checkpointer.go:63 "pos.DeliveredAt = time.Now()").
NothingOld ==
    [][\A r \in Rules : received'[r] # received[r]
         => log[r][Last(received'[r]).id] >= since[r]]_vars

\* When deliveries have ended, the latest one reaches the target, across crashes and failed
\* requests, unless the one POST of it failed, or the rule's goroutine has ended while others
\* go on, or it was delivered before the rule started.
LatestArrives ==
    \A r \in Rules :
        <>[](\/ log[r] = <<>>
             \/ pc[r] = "ended"
             \/ Last(log[r]) < since[r]
             \/ Len(log[r]) \in lost[r]
             \/ \E i \in DOMAIN received[r] : received[r][i].id = Len(log[r]))

============================================================================
