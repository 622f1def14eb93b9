----------------------------- MODULE StudioClient -----------------------------
(* The studio's web client as a projection of the server: the event hub and *)
(* its ring, the subscriber that reconnects and replays, the queue of       *)
(* snapshot resyncs, and the edits that are shown before they are read back *)
(* (event-hub.ts, event-stream.ts, use-studio-runtime.ts).  A command is    *)
(* executed in one step here: CommandEngine is its detail.                  *)
EXTENDS Naturals, Sequences

CONSTANTS
  Capacity,   \* of the hub's ring (10,000 by default)
  Backlog,    \* bound: events published before the page was loaded
  MaxNews,    \* bound: commands of others, and events that are not about one
  MaxEdits,   \* bound: edits made in this client
  MaxFaults   \* bound: connections lost and requests that fail

ASSUME ClientAssumption ==
  /\ Capacity \in Nat \ {0} /\ Backlog \in Nat
  /\ {MaxNews, MaxEdits, MaxFaults} \subseteq Nat

VARIABLES
  authority,   \* the project's current revision, counted from its creation
  unannounced, \* revisions whose project.command event is still to come
  log,         \* the kinds of the events published, at their sequence numbers
  stream,      \* of the subscriber: "down", "refused" or "up"
  wire,        \* sequence numbers written to the connection, not yet read
  cursor,      \* lastEventId; 0 before the first event
  resyncs,     \* who waits for a resync, the running one first
  fetched,     \* what the running resync has got so far
  edit,        \* the edit at the head of the mutation queue
  view,        \* what the client shows: revision, its number, its timeline
  spent        \* how much of each bound is used up

clientVars == <<authority, unannounced, log, stream, wire, cursor, resyncs,
                fetched, edit, view, spent>>
server == <<authority, unannounced, log>>
subscription == <<stream, wire, cursor>>

NotYet == 0
NoEdit == [step |-> "idle", base |-> 0, result |-> 0, attempt |-> 0]
NothingFetched == [project |-> NotYet, revisions |-> NotYet]
Nothing == [revision |-> 0, number |-> 0, timeline |-> 0]

Spend(what, bound) ==
  spent[what] < bound /\ spent' = [spent EXCEPT ![what] = @ + 1]
Fault(what) == Spend(what, MaxFaults) /\ spent.cuts + spent.errors < MaxFaults

(* The page has just been loaded, perhaps late in the server's life: the    *)
(* hub has published at least server.event-stream-ready.                    *)
ClientInit ==
  /\ authority = 1 /\ unannounced = {}
  /\ \E n \in 1..(Backlog + 1) : log = [i \in 1..n |-> "other"]
  /\ stream = "down" /\ wire = <<>> /\ cursor = 0
  /\ resyncs = <<"page">> /\ fetched = NothingFetched
  /\ edit = NoEdit /\ view = Nothing
  /\ spent = [news |-> 0, edits |-> 0, cuts |-> 0, errors |-> 0]

-----------------------------------------------------------------------------
(* The event hub.                                                          *)

(* The sequence number of the oldest event in the ring. *)
Earliest == IF Len(log) > Capacity THEN Len(log) - Capacity + 1 ELSE 1

X_ReplayGap == cursor + 2 < Earliest  \* an off-by-one in the gap check

(* An event the subscriber needs next has left the ring. *)
ReplayGap == cursor + 1 < Earliest

X_Replay == <<>>  \* subscribes without replaying

(* The sequence numbers in the ring after the one asked for. *)
Replay ==
  LET first == IF cursor + 1 > Earliest THEN cursor + 1 ELSE Earliest IN
  [i \in 1..(Len(log) - first + 1) |-> first + i - 1]

(* Numbers an event and writes it to every open stream. *)
PublishEvent(kind) ==
  /\ log' = Append(log, kind)
  /\ wire' = IF stream = "up" THEN Append(wire, Len(log) + 1) ELSE wire

(* A command of another client, or of an agent. *)
CommitElsewhere ==
  /\ Spend("news", MaxNews)
  /\ authority' = authority + 1
  /\ unannounced' = unannounced \cup {authority + 1}
  /\ UNCHANGED <<log, subscription, resyncs, fetched, edit, view>>

(* The session service announces a command once it has read back what it    *)
(* committed; two commands may be announced in either order.                *)
Announce(r) ==
  /\ r \in unannounced
  /\ unannounced' = unannounced \ {r}
  /\ PublishEvent("project")
  /\ UNCHANGED <<authority, stream, cursor, resyncs, fetched, edit, view, spent>>

(* A job, the preview, a capture: events that do not ask for a resync. *)
PublishOther ==
  /\ Spend("news", MaxNews)
  /\ PublishEvent("other")
  /\ UNCHANGED <<authority, unannounced, stream, cursor, resyncs, fetched, edit, view>>

-----------------------------------------------------------------------------
(* The subscriber.                                                         *)

(* The server replays what the ring has after the cursor, and subscribes    *)
(* the connection, in one step.                                             *)
Connect ==
  /\ stream # "up" /\ ~ReplayGap
  /\ stream' = "up" /\ wire' = Replay
  /\ UNCHANGED <<server, cursor, resyncs, fetched, edit, view, spent>>

(* The hub answers an error; the subscriber will try again, from the same   *)
(* cursor.                                                                  *)
ConnectRefused ==
  /\ stream = "down" /\ ReplayGap
  /\ stream' = "refused"
  /\ UNCHANGED <<server, wire, cursor, resyncs, fetched, edit, view, spent>>

(* The connection ends, with whatever was still in it. *)
Cut ==
  /\ stream = "up" /\ Fault("cuts")
  /\ stream' = "down" /\ wire' = <<>>
  /\ UNCHANGED <<server, cursor, resyncs, fetched, edit, view>>

X_Deliver ==  \* leaves it to a running resync to notice the event
  /\ wire # <<>>
  /\ wire' = Tail(wire)
  /\ IF Head(wire) <= cursor
       THEN UNCHANGED <<cursor, resyncs>>
       ELSE /\ cursor' = Head(wire)
            /\ resyncs' = IF log[Head(wire)] = "project" /\ resyncs = <<>>
                            THEN Append(resyncs, "event") ELSE resyncs
  /\ UNCHANGED <<server, stream, fetched, edit, view, spent>>

(* The next event is read: old ones are dropped, and one that tells of a    *)
(* command queues a resync.                                                 *)
Deliver ==
  /\ wire # <<>>
  /\ wire' = Tail(wire)
  /\ IF Head(wire) <= cursor
       THEN UNCHANGED <<cursor, resyncs>>
       ELSE /\ cursor' = Head(wire)
            /\ resyncs' = IF log[Head(wire)] = "project"
                            THEN Append(resyncs, "event") ELSE resyncs
  /\ UNCHANGED <<server, stream, fetched, edit, view, spent>>

-----------------------------------------------------------------------------
(* Resyncs, one at a time.                                                 *)

(* The two requests of the running resync are answered in any order. *)
FetchProject ==
  /\ resyncs # <<>> /\ fetched.project = NotYet
  /\ fetched' = [fetched EXCEPT !.project = authority]
  /\ UNCHANGED <<server, subscription, resyncs, edit, view, spent>>

FetchRevisions ==
  /\ resyncs # <<>> /\ fetched.revisions = NotYet
  /\ fetched' = [fetched EXCEPT !.revisions = authority]
  /\ UNCHANGED <<server, subscription, resyncs, edit, view, spent>>

(* The promise of the running resync settles: the next one may run, and an  *)
(* edit that waited for it is over.                                         *)
FinishResync ==
  /\ resyncs' = Tail(resyncs) /\ fetched' = NothingFetched
  /\ edit' = IF Head(resyncs) = "edit" THEN NoEdit ELSE edit

(* The snapshot replaces what is shown. *)
ApplySnapshot ==
  /\ resyncs # <<>> /\ NotYet \notin {fetched.project, fetched.revisions}
  /\ view' = [revision |-> fetched.project, timeline |-> fetched.project,
              number |-> fetched.revisions]
  /\ FinishResync
  /\ UNCHANGED <<server, subscription, spent>>

(* A request of the resync fails; nothing of it is shown or tried again. *)
ResyncFails ==
  /\ resyncs # <<>> /\ NotYet \in {fetched.project, fetched.revisions}
  /\ Fault("errors")
  /\ FinishResync
  /\ UNCHANGED <<server, subscription, view>>

-----------------------------------------------------------------------------
(* An edit; the next one in the queue waits for its end.                   *)

To(step) == edit' = [edit EXCEPT !.step = step]

BeginEdit ==
  /\ edit.step = "idle" /\ Spend("edits", MaxEdits)
  /\ edit' = [NoEdit EXCEPT !.step = "read"]
  /\ UNCHANGED <<server, subscription, resyncs, fetched, view>>

(* The edit is computed from an authoritative snapshot, and refused there,  *)
(* or sent with that base and a fresh idempotency id.                       *)
ReadBase ==
  /\ edit.step = "read"
  /\ \/ edit' = [edit EXCEPT !.step = "send", !.base = authority, !.attempt = @ + 1]
     \/ edit' = NoEdit
  /\ UNCHANGED <<server, subscription, resyncs, fetched, view, spent>>

(* The server commits the edit, or finds its base stale. *)
ExecuteEdit ==
  /\ edit.step = "send"
  /\ IF edit.base = authority
       THEN /\ authority' = authority + 1
            /\ unannounced' = unannounced \cup {authority + 1}
            /\ edit' = [edit EXCEPT !.step = "accepted", !.result = authority + 1]
       ELSE To("stale") /\ UNCHANGED <<authority, unannounced>>
  /\ UNCHANGED <<log, subscription, resyncs, fetched, view, spent>>

X_EditAccepted ==  \* shows the accepted revision's id as well
  /\ edit.step = "accepted"
  /\ view' = [view EXCEPT !.timeline = edit.result, !.revision = edit.result]
  /\ resyncs' = Append(resyncs, "edit")
  /\ To("shown")
  /\ UNCHANGED <<server, subscription, fetched, spent>>

(* The response arrives: the edited timeline is shown at once, and the edit *)
(* waits for a resync.                                                      *)
EditAccepted ==
  /\ edit.step = "accepted"
  /\ view' = [view EXCEPT !.timeline = edit.result]
  /\ resyncs' = Append(resyncs, "edit")
  /\ To("shown")
  /\ UNCHANGED <<server, subscription, fetched, spent>>

(* A stale edit is computed anew once, and then reported. *)
EditStale ==
  /\ edit.step = "stale"
  /\ IF edit.attempt < 2 THEN To("read") ELSE edit' = NoEdit
  /\ UNCHANGED <<server, subscription, resyncs, fetched, view, spent>>

(* A request of the edit fails, or its response is lost. *)
EditFails ==
  /\ edit.step \in {"read", "send", "accepted", "stale"}
  /\ Fault("errors")
  /\ edit' = NoEdit
  /\ UNCHANGED <<server, subscription, resyncs, fetched, view>>

EditStep == ReadBase \/ ExecuteEdit \/ EditAccepted \/ EditStale

-----------------------------------------------------------------------------
ClientNext ==
  \/ CommitElsewhere \/ PublishOther \/ \E r \in unannounced : Announce(r)
  \/ Connect \/ ConnectRefused \/ Cut \/ Deliver
  \/ FetchProject \/ FetchRevisions \/ ApplySnapshot \/ ResyncFails
  \/ BeginEdit \/ EditStep \/ EditFails

ClientSpec == ClientInit /\ [][ClientNext]_clientVars

(* The server answers and announces, a subscriber reconnects and reads.    *)
FairClientSpec ==
  /\ ClientSpec
  /\ WF_clientVars(\E r \in unannounced : Announce(r))
  /\ WF_clientVars(Connect) /\ WF_clientVars(ConnectRefused) /\ WF_clientVars(Deliver)
  /\ WF_clientVars(FetchProject) /\ WF_clientVars(FetchRevisions) /\ WF_clientVars(ApplySnapshot)
  /\ WF_clientVars(EditStep)

-----------------------------------------------------------------------------
(* Every variable has its type, an edit is sent at most twice, and waits    *)
(* for a resync just while one of its own is queued.                        *)
ClientTypeOK ==
  /\ authority \in Nat \ {0} /\ unannounced \subseteq Nat
  /\ log \in Seq({"project", "other"})
  /\ stream \in {"down", "refused", "up"}
  /\ wire \in Seq(1..Len(log)) /\ cursor \in 0..Len(log)
  /\ resyncs \in Seq({"page", "event", "edit"})
  /\ fetched \in [project : Nat, revisions : Nat]
  /\ edit \in [step : {"idle", "read", "send", "accepted", "stale", "shown"},
               base : Nat, result : Nat, attempt : 0..2]
  /\ view \in [revision : Nat, number : Nat, timeline : Nat]
  /\ spent \in [{"news", "edits", "cuts", "errors"} -> Nat]
  /\ edit.step = "shown" <=> \E i \in DOMAIN resyncs : resyncs[i] = "edit"

(* Something is under way that will make the client read the authority.    *)
RefreshDue ==
  \/ unannounced # {}
  \/ \E i \in (cursor + 1)..Len(log) : log[i] = "project"
  \/ resyncs # <<>>

Shown(r) == view = [revision |-> r, number |-> r, timeline |-> r]

(* What the client shows is the authoritative revision, its number and its  *)
(* timeline, except while news of a change is still on its way to it: races *)
(* of commands, announcements, responses and snapshots leave nothing stale  *)
(* behind (unless a request failed, which nobody tries again).              *)
StaleOnlyWhileRefreshDue ==
  Shown(authority) \/ RefreshDue \/ spent.errors > 0

(* The client's state is well formed, and stale only with news on its way. *)
ShownIsSound == ClientTypeOK /\ StaleOnlyWhileRefreshDue

(* Resyncs overlap with edits, events and each other, but the revision that *)
(* is shown never goes back to an older one.                                *)
RevisionShownMovesForward == [][view'.revision >= view.revision]_clientVars

(* Cuts, replays and the ring never lose or repeat an event unnoticed.     *)
Feed == INSTANCE EventFeed WITH sent <- Len(log), seen <- cursor
ImplementsFeed == Feed!Spec

(* Commands come to an end (their bounds do), and then the client settles   *)
(* on the authoritative revision, unless a request failed or the ring lost  *)
(* what the subscriber needs.                                               *)
SettlesOnAuthority == <>[](Shown(authority) \/ spent.errors > 0 \/ ReplayGap)

(* An edit ends, so that it does not block those queued behind it.         *)
EditEnds == edit.step # "idle" ~> edit.step = "idle"

(* Neither what is shown nor an edit hangs for ever.                       *)
ClientSettles == SettlesOnAuthority /\ EditEnds

=============================================================================
