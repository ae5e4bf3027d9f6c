------------------------------ MODULE RunStream ------------------------------
(***************************************************************************)
(* The subscription to a run's events (apps/web, lib/hooks/useRunStream.ts)*)
(* with the store it feeds.  The server logs events with sequence numbers; *)
(* the browser's EventSource delivers them in order, reconnects by itself  *)
(* after a drop and resumes behind the last id it received.  Events that   *)
(* are gone by then, or that the server skips, are gaps.                   *)
(*                                                                         *)
(* Received events wait in `pending` for an animation frame; a gap makes   *)
(* the hook fetch the whole state (rehydrate), whose answer may come late, *)
(* in another order, or for a run the page has left.                       *)
(***************************************************************************)
EXTENDS RunStore, FiniteSets

CONSTANTS
  Log,          \* the events of a run, in order; the last one is terminal
  Runs,         \* the runs the page may show, 1 first: 1..2
  MaxGaps,      \* bound: gaps and unreadable events
  MaxDrops,     \* bound: lost connections
  MaxFetches    \* bound: rehydrations

ASSUME LogAssumption ==
  /\ Log \in Seq(Range(Log)) /\ Log # <<>>
  /\ \A i \in DOMAIN Log : IsTerminal(Log[i]) <=> i = Len(Log)
ASSUME RunsAssumption == 1 \in Runs /\ Runs \subseteq Nat

VARIABLES
  logged,     \* per run, the number of events logged so far
  conn,       \* the EventSource: "connecting", "open", "retrying", "closed"
  cursor,     \* the last id the EventSource received (Last-Event-ID)
  gaps, drops,
  run,        \* the hook's argument
  status,     \* the hook's status
  lastSeq, resuming, pending, frame,   \* its refs; frame: raf is scheduled
  events,     \* its raw log: sequence numbers
  fetches,    \* rehydrations under way, by number: run, and snapshot or 0
  asked,      \* rehydrations issued so far
  store,      \* the run store
  (* Records the past for the properties; no guard reads it.               *)
  exact       \* nothing happened so far that makes the store differ

server == <<logged, gaps, drops>>
hook == <<status, lastSeq, resuming, pending, frame, events>>
streamVars == <<server, conn, cursor, run, hook, fetches, asked, store, exact>>

Replay == [n \in 0..Len(Log) |-> ApplyAll(StoreInit, SubSeq(Log, 1, n))]

StreamInit ==
  /\ logged = [r \in Runs |-> 0] /\ gaps = 0 /\ drops = 0
  /\ conn = "connecting" /\ cursor = 0 /\ run = 1
  /\ status = "connecting" /\ lastSeq = 0 /\ resuming = FALSE
  /\ pending = <<>> /\ frame = FALSE /\ events = <<>>
  /\ fetches = <<>> /\ asked = 0
  /\ store = StoreInit /\ exact = TRUE

(* The run goes on.                                                        *)
LogEvent(r) ==
  /\ logged[r] < Len(Log)
  /\ logged' = [logged EXCEPT ![r] = @ + 1]
  /\ UNCHANGED <<gaps, drops, conn, cursor, run, hook, fetches, asked, store, exact>>

Open ==    \* onopen
  /\ conn \in {"connecting", "retrying"}
  /\ conn' = "open" /\ status' = "streaming"
  /\ UNCHANGED <<server, cursor, run, lastSeq, resuming, pending, frame, events, fetches, asked, store, exact>>

Gap(n) == lastSeq > 0 /\ n > lastSeq + 1

(* The gap check with rehydrate, as `asked` and `fetches` after event n.   *)
CheckGap(n) ==
  IF ~resuming /\ Gap(n)
  THEN /\ asked < MaxFetches
       /\ asked' = asked + 1
       /\ fetches' = [k \in DOMAIN fetches \cup {asked + 1} |->
                        IF k = asked + 1 THEN [run |-> run, upto |-> 0] ELSE fetches[k]]
  ELSE UNCHANGED <<asked, fetches>>

CloseFirst(n) ==    \* mutant: a terminal event closes before it schedules
  /\ conn = "open" /\ n \in (cursor + 1)..logged[run]
  /\ gaps' = IF n > cursor + 1 THEN gaps + 1 ELSE gaps
  /\ gaps' <= MaxGaps
  /\ CheckGap(n)
  /\ resuming' = FALSE
  /\ lastSeq' = (IF n > lastSeq THEN n ELSE lastSeq) /\ cursor' = n
  /\ pending' = Append(pending, n)
  /\ IF IsTerminal(Log[n]) THEN conn' = "closed" /\ status' = "complete" /\ UNCHANGED frame
                           ELSE frame' = TRUE /\ UNCHANGED <<conn, status>>
  /\ exact' = (exact /\ n = cursor + 1)
  /\ UNCHANGED <<logged, drops, run, events, store>>

(* onmessage for event n; the terminal event closes the stream.            *)
Receive(n) ==
  /\ conn = "open" /\ n \in (cursor + 1)..logged[run]
  /\ gaps' = IF n > cursor + 1 THEN gaps + 1 ELSE gaps
  /\ gaps' <= MaxGaps
  /\ CheckGap(n)
  /\ resuming' = FALSE
  /\ lastSeq' = (IF n > lastSeq THEN n ELSE lastSeq) /\ cursor' = n
  /\ pending' = Append(pending, n) /\ frame' = TRUE
  /\ IF IsTerminal(Log[n]) THEN conn' = "closed" /\ status' = "complete"
                           ELSE UNCHANGED <<conn, status>>
  /\ exact' = (exact /\ n = cursor + 1)
  /\ UNCHANGED <<logged, drops, run, events, store>>

(* An event whose data does not parse moves the cursor and nothing else.   *)
ReceiveUnreadable(n) ==
  /\ conn = "open" /\ n \in (cursor + 1)..logged[run] /\ gaps < MaxGaps
  /\ gaps' = gaps + 1
  /\ CheckGap(n)
  /\ resuming' = FALSE
  /\ lastSeq' = (IF n > lastSeq THEN n ELSE lastSeq) /\ cursor' = n
  /\ exact' = FALSE
  /\ UNCHANGED <<logged, drops, run, conn, status, pending, frame, events, store>>

KeepQueue ==    \* mutant: the queue is not emptied
  /\ frame
  /\ frame' = FALSE
  /\ store' = ApplyAll(store, [i \in DOMAIN pending |-> Log[pending[i]]])
  /\ events' = events \o pending
  /\ UNCHANGED <<server, conn, cursor, run, status, lastSeq, resuming, pending, fetches, asked, exact>>

Flush ==    \* the animation frame
  /\ frame
  /\ frame' = FALSE /\ pending' = <<>>
  /\ store' = ApplyAll(store, [i \in DOMAIN pending |-> Log[pending[i]]])
  /\ events' = events \o pending
  /\ UNCHANGED <<server, conn, cursor, run, status, lastSeq, resuming, fetches, asked, exact>>

(* onerror: the connection, or an attempt to have it again, is lost; the   *)
(* browser retries, or has given up.                                       *)
Drop ==
  /\ conn # "closed" /\ drops < MaxDrops
  /\ drops' = drops + 1
  /\ \/ conn' = "retrying" /\ resuming' = TRUE /\ status' = "reconnecting"
     \/ conn' = "closed" /\ status' = "error" /\ UNCHANGED resuming
  /\ UNCHANGED <<logged, gaps, cursor, run, lastSeq, pending, frame, events, fetches, asked, store, exact>>

AnswerFetch(k) ==
  /\ k \in DOMAIN fetches /\ fetches[k].upto = 0 /\ logged[fetches[k].run] > 0
  /\ fetches' = [fetches EXCEPT ![k].upto = logged[fetches[k].run]]
  /\ UNCHANGED <<server, conn, cursor, run, hook, asked, store, exact>>

FetchFails(k) ==
  /\ k \in DOMAIN fetches
  /\ fetches' = [j \in DOMAIN fetches \ {k} |-> fetches[j]]
  /\ UNCHANGED <<server, conn, cursor, run, hook, asked, store, exact>>

(* rehydrate's answer replaces the state, whichever run and moment it is   *)
(* of.  It is exact if no event behind it or before it is still to come.   *)
Rehydrate(k) ==
  /\ k \in DOMAIN fetches /\ fetches[k].upto > 0
  /\ lastSeq' = fetches[k].upto /\ store' = Replay[fetches[k].upto]
  /\ exact' = (fetches[k].run = run /\ fetches[k].upto = cursor /\ pending = <<>>)
  /\ fetches' = [j \in DOMAIN fetches \ {k} |-> fetches[j]]
  /\ UNCHANGED <<server, conn, cursor, run, status, resuming, pending, frame, events, asked>>

(* The page moves on to another run: the effect cleans up and starts over. *)
(* Neither the store nor a rehydration under way is reset.                 *)
KeepCursor(r) ==    \* mutant: the new stream resumes behind the old run's last id
  /\ r \in Runs /\ r = run + 1
  /\ run' = r /\ conn' = "connecting"
  /\ status' = "connecting" /\ lastSeq' = 0 /\ resuming' = FALSE
  /\ pending' = <<>> /\ frame' = FALSE /\ events' = <<>>
  /\ exact' = (exact /\ store = StoreInit)
  /\ UNCHANGED <<server, cursor, fetches, asked, store>>

ShowRun(r) ==
  /\ r \in Runs /\ r = run + 1
  /\ run' = r /\ conn' = "connecting" /\ cursor' = 0
  /\ status' = "connecting" /\ lastSeq' = 0 /\ resuming' = FALSE
  /\ pending' = <<>> /\ frame' = FALSE /\ events' = <<>>
  /\ exact' = (exact /\ store = StoreInit)
  /\ UNCHANGED <<server, fetches, asked, store>>

StreamNext ==
  \/ \E r \in Runs : LogEvent(r) \/ ShowRun(r)
  \/ Open \/ Drop \/ Flush
  \/ \E n \in DOMAIN Log : Receive(n) \/ ReceiveUnreadable(n)
  \/ \E k \in DOMAIN fetches : AnswerFetch(k) \/ FetchFails(k) \/ Rehydrate(k)

StreamSpec == StreamInit /\ [][StreamNext]_streamVars

(* The browser runs a frame it was asked for, unless it is cancelled.      *)
FrameEnds == frame /\ frame' = FALSE
StreamLive == StreamSpec /\ WF_frame(FrameEnds)
-----------------------------------------------------------------------------
(* Properties.                                                             *)

StreamTypeOK ==
  /\ logged \in [Runs -> 0..Len(Log)] /\ run \in Runs
  /\ conn \in {"connecting", "open", "retrying", "closed"}
  /\ cursor \in 0..logged[run] /\ lastSeq \in 0..Len(Log)
  /\ status \in {"connecting", "streaming", "reconnecting", "complete", "error"}
  /\ resuming \in BOOLEAN /\ frame \in BOOLEAN
  /\ \A q \in {pending, events} : \A i \in DOMAIN q : q[i] \in DOMAIN Log
  /\ \A k \in DOMAIN fetches : k \in 1..asked /\ fetches[k].upto \in 0..Len(Log)
  /\ ActiveAt(store) \subseteq DOMAIN store.steps

(* The store with the waiting events applied is the state of the run after *)
(* the last event received, unless an event was missed or unreadable, a    *)
(* rehydration brought a state that is not of that event, or the page came *)
(* from a run whose state was kept; an exact rehydration repairs it.  And  *)
(* however events are missed, applied again or mixed with another run's    *)
(* state, output and verdicts have at most one step to go to.              *)
StoreIsReplay ==
  /\ exact => ApplyAll(store, [i \in DOMAIN pending |-> Log[pending[i]]]) = Replay[cursor]
  /\ Cardinality(ActiveAt(store)) <= 1

(* A run that is reported complete is shown complete: its last events do   *)
(* not stay in the queue though the stream is closed.                      *)
CompleteIsFlushed == status = "complete" ~> pending = <<>>
=============================================================================
