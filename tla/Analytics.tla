----------------------------- MODULE Analytics ------------------------------
(***************************************************************************)
(* The queue of analytics events (src/analytics.rs): events are numbered,  *)
(* collected in batches of one account, and sent one batch at a time; a    *)
(* batch whose sending failed goes back to the front.  flush, which signing*)
(* in and out run first, sends all the rest at once.                       *)
(*                                                                         *)
(* A request the API has served may still fail, so that a batch can be     *)
(* sent twice.                                                             *)
(***************************************************************************)
EXTENDS Loadables, Sequences, SequencesExt

CONSTANTS
  Accounts,    \* auth keys
  MaxEvents    \* bound: events emitted

EventsAssumption == MaxEvents \in Nat

Numbers == 1 .. MaxEvents

Batch == [auth_key : Accounts, events : Seq(Numbers)]

AccountsAssumption == None \notin Accounts /\ None \notin Batch

VARIABLES
  auth_key,    \* ctx.profile.auth_key()
  number,      \* state.number
  queue,       \* state.queue, a sequence of batches
  pending,     \* state.pending
  sending,     \* requests under way: the batch, whether flush sent it, the API's answer
  emitter,     \* history: the account under which each event was emitted
  received,    \* history: the events the API received
  dropped      \* history: events that flush sent or forgot, and those the API refused

analyticsVars == <<auth_key, number, queue, pending, sending, emitter, received, dropped>>

Events(batch) == Range(batch.events)
Queued == UNION {Events(queue[i]) : i \in DOMAIN queue}
Pending == IF pending = None THEN {} ELSE Events(pending)

TypeOK ==
  /\ auth_key \in Option(Accounts)
  /\ number \in 0 .. MaxEvents
  /\ \A i \in DOMAIN queue : queue[i].auth_key \in Accounts /\ Events(queue[i]) \subseteq Numbers
  /\ pending # None => pending.auth_key \in Accounts /\ Events(pending) \subseteq Numbers
  /\ DOMAIN sending = Slots
  /\ emitter \in [1 .. number -> Accounts]
  /\ received \cup dropped \subseteq 1 .. number
-----------------------------------------------------------------------------
\* Changed: the account of the last batch is not compared.
PushEvent_AnyAccount(event, k) ==
  IF queue # <<>>
    THEN [queue EXCEPT ![Len(queue)].events = Append(@, event)]
    ELSE <<[auth_key |-> k, events |-> <<event>>]>>

\* push_event
PushEvent(event, k) ==
  IF queue # <<>> /\ Last(queue).auth_key = k
    THEN [queue EXCEPT ![Len(queue)].events = Append(@, event)]
    ELSE Append(queue, [auth_key |-> k, events |-> <<event>>])

\* emit, while somebody is signed in.
Emit ==
  /\ auth_key # None /\ number < MaxEvents
  /\ number' = number + 1
  /\ queue' = PushEvent(number + 1, auth_key)
  /\ emitter' = Append(emitter, auth_key)
  /\ UNCHANGED <<auth_key, pending, sending, received, dropped>>

\* send_next_batch
SendNextBatch ==
  /\ pending = None /\ queue # <<>>
  /\ pending' = Head(queue)
  /\ queue' = Tail(queue)
  /\ sending' \in Sent(sending, [batch |-> Head(queue), flushed |-> FALSE, answer |-> "none"])
  /\ UNCHANGED <<auth_key, number, emitter, received, dropped>>

\* fetch_api's answer: received and confirmed, refused with the error code 1,
\* or failed, before or after the API received it.
Serve(s) ==
  /\ sending[s] # Free /\ sending[s].answer = "none"
  /\ \E answer \in {"ok", "refused", "failed"}, arrives \in BOOLEAN :
       /\ arrives => answer # "refused"
       /\ answer = "ok" => arrives
       /\ received' = IF arrives THEN received \cup Events(sending[s].batch) ELSE received
       /\ sending' = [sending EXCEPT ![s].answer = answer]
       /\ dropped' = IF answer = "refused" THEN dropped \cup Events(sending[s].batch) ELSE dropped
  /\ UNCHANGED <<auth_key, number, queue, pending, emitter>>

\* Changed: a batch that failed goes to the end of the queue.
BatchSent_RevertToBack(s) ==
  /\ sending[s] # Free /\ sending[s].answer # "none"
  /\ IF ~sending[s].flushed /\ pending = sending[s].batch
       THEN /\ pending' = None
            /\ queue' = IF sending[s].answer = "failed" THEN Append(queue, pending) ELSE queue
       ELSE UNCHANGED <<pending, queue>>
  /\ sending' = Ended(sending, s)
  /\ UNCHANGED <<auth_key, number, emitter, received, dropped>>

\* Changed: a batch that failed stays pending.
BatchSent_StaysPending(s) ==
  /\ sending[s] # Free /\ sending[s].answer # "none"
  /\ pending' = IF ~sending[s].flushed /\ pending = sending[s].batch /\ sending[s].answer # "failed"
                  THEN None ELSE pending
  /\ sending' = Ended(sending, s)
  /\ UNCHANGED <<auth_key, number, queue, emitter, received, dropped>>

\* The end of send_next_batch's future, and revert_pending.
BatchSent(s) ==
  /\ sending[s] # Free /\ sending[s].answer # "none"
  /\ IF ~sending[s].flushed /\ pending = sending[s].batch
       THEN /\ pending' = None
            /\ queue' = IF sending[s].answer = "failed" THEN <<pending>> \o queue ELSE queue
       ELSE UNCHANGED <<pending, queue>>
  /\ sending' = Ended(sending, s)
  /\ UNCHANGED <<auth_key, number, emitter, received, dropped>>

\* flush: a request for each batch of the queue, and the pending one forgotten.
Flush ==
  LET free == {s \in Slots : sending[s] = Free} IN
  /\ Cardinality(free) >= Len(queue)
  /\ \E place \in [DOMAIN queue -> free] :
       /\ IsInjective(place)
       /\ sending' = [s \in Slots |->
            IF s \in Range(place)
              THEN [batch |-> queue[CHOOSE i \in DOMAIN queue : place[i] = s], flushed |-> TRUE,
                    answer |-> "none"]
              ELSE sending[s]]
  /\ pending' = None /\ queue' = <<>>
  /\ dropped' = dropped \cup Queued \cup Pending
  /\ UNCHANGED <<auth_key, number, emitter, received>>

\* Ctx signs in and out, with a Flush before or after the profile has changed.
ProfileChanged(k) ==
  /\ auth_key' = k /\ k # auth_key
  /\ UNCHANGED <<number, queue, pending, sending, emitter, received, dropped>>
-----------------------------------------------------------------------------
Init ==
  /\ auth_key = None /\ number = 0 /\ queue = <<>> /\ pending = None
  /\ sending = NoFlight
  /\ emitter = <<>> /\ received = {} /\ dropped = {}

Next ==
  \/ Emit \/ SendNextBatch \/ Flush
  \/ \E k \in Option(Accounts) : ProfileChanged(k)
  \/ \E s \in Slots : Serve(s) \/ BatchSent(s)

Spec == Init /\ [][Next]_analyticsVars

\* Requests end, and the web environment runs SendNextBatch every 30 seconds.
Fairness ==
  /\ WF_analyticsVars(SendNextBatch)
  /\ \A s \in Slots : WF_analyticsVars(Serve(s)) /\ WF_analyticsVars(BatchSent(s))
-----------------------------------------------------------------------------
\* An event goes to the API under the account that was signed in when it was
\* emitted, through account changes, failures and retries (analytics.rs:64).
SentUnderOwnAccount ==
  \A s \in Slots : sending[s] # Free =>
    \A e \in Events(sending[s].batch) : emitter[e] = sending[s].batch.auth_key

\* Until flush gives up on it or the API refuses it, every event the API has not
\* received will be sent: no late answer to another batch makes it forgotten.
NotForgotten == Queued \cup Pending \cup received \cup dropped = 1 .. number

\* Batches sent one at a time arrive in order, retried ones too.
ArriveInOrder ==
  [][\A s \in Slots :
       Serve(s) /\ ~sending[s].flushed =>
         \A e \in Events(sending[s].batch) \ dropped, f \in received \ dropped :
           f < e \/ f \in Events(sending[s].batch)]_analyticsVars

\* A pending batch does not block the queue for ever.
PendingEnds == pending # None ~> pending = None
=============================================================================
