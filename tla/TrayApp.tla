------------------------------- MODULE TrayApp -------------------------------
(***************************************************************************)
(* The tray application (cmd/nanofuse-tray/tray_desktop.go,                *)
(* internal/trayapp/app.go): a menu with one row per VM that is filled by  *)
(* refreshes, each a goroutine of its own, and whose items are handled by  *)
(* one goroutine per row and one for the rest.  Everything the menu shows  *)
(* follows from the status and the pending confirmation, both of which     *)
(* change under the mutex of the UI only.                                  *)
(*                                                                         *)
(* A click is taken by its goroutine at once, or lost if that is busy, but *)
(* is handled only when the goroutine has the mutex.                       *)
(***************************************************************************)
EXTENDS Naturals, Sequences, FiniteSets, SequencesExt

CONSTANTS
  TrayVMs,       \* VMs of the daemon
  TrayActions,   \* the items of a row: "start", "stop", "kill", "delete", "select"
  MaxTrayEvents      \* bound: clicks, ticks of the timer and changes by other clients

ASSUME TrayAssumption == IsFiniteSet(TrayVMs) /\ MaxTrayEvents \in Nat

VARIABLES
  world,       \* the VMs of the daemon with their states, as ListVMs orders them
  age,         \* number of changes of world
  events,      \* number of clicks, ticks and changes by others
  refreshID,   \* trayUI.refreshID
  refresh,     \* per refresh: its step, and the status it has collected
  shown,      \* trayUI.status
  pending,     \* the action that waits for its confirmation: action, VM, click
  timers,      \* goroutines of expirePending
  due,         \* clicks whose confirmation window is over
  click,       \* per row: the click that waits for the mutex, with what the user saw
  requests,    \* actions on their way to the daemon
  sent,        \* history: those that destroy something, with what the user saw
  launches,    \* goroutines that launch a VM or add an image: item, step, VM
  imageRef,    \* an image is selected
  items        \* the enabled ones of the items below, by what they begin

trayVars == <<world, age, events, refreshID, refresh, shown, pending, timers, due, click, requests, sent, launches, imageRef, items>>

Rows == 1..Cardinality(TrayVMs)
NoClick == [action |-> "none"]
NoPending == [action |-> "none"]
Unknown == [ok |-> FALSE, rows |-> <<>>, age |-> 0]

TrayInit ==
  /\ world \in {[i \in Rows |-> [vm |-> s[i], state |-> "running"]] : s \in SetToSeqs(TrayVMs)}
  /\ age = 0 /\ events = 0 /\ refreshID = 0 /\ refresh = [r \in 1..MaxTrayEvents |-> [at |-> "none"]]
  /\ shown = Unknown /\ pending = NoPending /\ timers = {} /\ due = {}
  /\ click = [i \in Rows |-> NoClick] /\ requests = {} /\ sent = {}
  /\ launches = {} /\ imageRef = FALSE /\ items = {}

Event == events < MaxTrayEvents /\ events' = events + 1

\* Another client of the daemon deletes, starts or stops a VM, or makes it anew: first in the list.
WorldChanges ==
  /\ Event /\ age' = age + 1
  /\ \/ \E i \in DOMAIN world : world' = RemoveAt(world, i)
     \/ \E i \in DOMAIN world, s \in {"running", "stopped"} : world' = [world EXCEPT ![i].state = s]
     \/ \E v \in TrayVMs : (\A i \in DOMAIN world : world[i].vm # v) /\ world' = <<[vm |-> v, state |-> "stopped"]>> \o world
  /\ UNCHANGED <<refreshID, refresh, shown, pending, timers, due, click, requests, sent, launches, imageRef, items>>

-----------------------------------------------------------------------------
(* refresh                                                                 *)

\* "New MicroVM From Container...", "Add Image to List..." and "Launch Selected Cached Image".
EnabledItems(st, image) == IF st.ok THEN {"launch", "add"} \union (IF image THEN {"cached"} ELSE {}) ELSE {}

Refresh ==
  /\ refreshID' = refreshID + 1
  /\ refresh' = [refresh EXCEPT ![refreshID + 1] = [at |-> "collect"]]

\* The ticker, the item "Refresh", or the start of the program.
RefreshStarts ==
  /\ Event /\ Refresh
  /\ UNCHANGED <<world, age, shown, pending, timers, due, click, requests, sent, launches, imageRef, items>>

\* CollectStatus: an error before the list of VMs, after it, or none.  A daemon without a
\* runtime counts as an error here, since no action is enabled in either case.
CollectStatus(r) ==
  /\ refresh[r].at = "collect"
  /\ \E s \in {[ok |-> TRUE, rows |-> world, age |-> age], [ok |-> FALSE, rows |-> world, age |-> age],
               [ok |-> FALSE, rows |-> <<>>, age |-> age]} :
       refresh' = [refresh EXCEPT ![r] = [at |-> "answer", status |-> s]]
  /\ UNCHANGED <<world, age, events, refreshID, shown, pending, timers, due, click, requests, sent, launches, imageRef, items>>

\* Mutant: answers are shown in the order in which they come.
ApplyRefreshAny(r) ==
  /\ refresh[r].at = "answer" /\ refresh' = [refresh EXCEPT ![r] = [at |-> "over"]]
  /\ shown' = refresh[r].status /\ pending' = NoPending /\ items' = EnabledItems(shown', imageRef)
  /\ UNCHANGED <<world, age, events, refreshID, timers, due, click, requests, sent, launches, imageRef>>

\* The answer is shown unless a later refresh has begun; a confirmation is forgotten.
ApplyRefresh(r) ==
  /\ refresh[r].at = "answer" /\ refresh' = [refresh EXCEPT ![r] = [at |-> "over"]]
  /\ IF r = refreshID
     THEN shown' = refresh[r].status /\ pending' = NoPending /\ items' = EnabledItems(shown', imageRef)
     ELSE UNCHANGED <<shown, pending, items>>
  /\ UNCHANGED <<world, age, events, refreshID, timers, due, click, requests, sent, launches, imageRef>>

-----------------------------------------------------------------------------
(* Rows of VMs                                                             *)

\* VMActionAllowed, by the state in the row.
VMActionAllowed(row, a) ==
  CASE a = "start" -> row.state = "stopped"
    [] a \in {"stop", "kill"} -> row.state = "running"
    [] OTHER -> TRUE

\* updateVMItems: actions are enabled when the runtime is ready and the state allows them.
Enabled(i, a) == i \in DOMAIN shown.rows /\ (a = "select" \/ (shown.ok /\ VMActionAllowed(shown.rows[i], a)))

\* actionTitle: the item says "Confirm ...".
ShowsConfirm(i, a) == pending.action = a /\ pending.vm = shown.rows[i].vm

\* The user clicks on an item of a row whose goroutine is idle.
ClickRow(i, a) ==
  /\ click[i] = NoClick /\ Enabled(i, a) /\ Event
  /\ click' = [click EXCEPT ![i] = [action |-> a, vm |-> shown.rows[i].vm, confirm |-> ShowsConfirm(i, a), id |-> events]]
  /\ UNCHANGED <<world, age, refreshID, refresh, shown, pending, timers, due, requests, sent, launches, imageRef, items>>

\* Mutant: any pending confirmation of this action is taken.
ConfirmedAnyVM(a, vm) == pending.action = a /\ pending.id \notin due

\* confirmActionLocked: the same action on the same VM, within the window.
Confirmed(a, vm) == pending.action = a /\ pending.vm = vm /\ pending.id \notin due

\* updateActionStateLocked decides anew which items are enabled.
UpdateActionState == items' = EnabledItems(shown, imageRef)

\* selectVM and runActionForIndex: the row is looked up again.
HandleClick(i) ==
  LET c == click[i] IN
  /\ c # NoClick /\ click' = [click EXCEPT ![i] = NoClick]
  /\ IF i \notin DOMAIN shown.rows
     THEN UNCHANGED <<pending, timers, requests, sent, items>>
     ELSE LET row == shown.rows[i]
              allowed == shown.ok /\ VMActionAllowed(row, c.action) IN
          /\ UpdateActionState
          /\ CASE c.action = "select" ->
                    pending' = NoPending /\ UNCHANGED <<timers, requests, sent>>
               [] c.action # "select" /\ ~allowed ->
                    UNCHANGED <<pending, timers, requests, sent>>
               [] c.action \in {"kill", "delete"} /\ allowed /\ ~Confirmed(c.action, row.vm) ->
                    /\ pending' = [action |-> c.action, vm |-> row.vm, id |-> c.id]
                    /\ timers' = timers \union {pending'} /\ UNCHANGED <<requests, sent>>
               [] OTHER ->
                    LET q == [action |-> c.action, vm |-> row.vm, id |-> c.id, saw |-> c.vm, confirm |-> c.confirm] IN
                    /\ pending' = NoPending /\ requests' = requests \union {q} /\ sent' = IF c.action \in {"kill", "delete"} THEN sent \union {q} ELSE sent
                    /\ UNCHANGED timers
  /\ UNCHANGED <<world, age, events, refreshID, refresh, shown, due, launches, imageRef>>

\* confirmationWindow is over ...
WindowPasses(t) ==
  /\ t \in timers /\ t.id \notin due /\ due' = due \union {t.id}
  /\ UNCHANGED <<world, age, events, refreshID, refresh, shown, pending, timers, click, requests, sent, launches, imageRef, items>>

\* ... and expirePending drops the confirmation, if it is still this one.
ExpirePending(t) ==
  /\ t \in timers /\ t.id \in due /\ timers' = timers \ {t} /\ due' = due \ {t.id}
  /\ IF pending = t THEN pending' = NoPending /\ UpdateActionState ELSE UNCHANGED <<pending, items>>
  /\ UNCHANGED <<world, age, events, refreshID, refresh, shown, click, requests, sent, launches, imageRef>>

\* ExecuteVMAction: the daemon does what the state of the VM admits, or refuses; only a
\* success is followed by a refresh.
ExecuteVMAction(q) ==
  LET is == {i \in DOMAIN world : world[i].vm = q.vm} IN
  /\ q \in requests /\ requests' = requests \ {q}
  /\ \/ UNCHANGED <<world, age, refreshID, refresh>>
     \/ /\ Refresh /\ age' = age + 1
        /\ \E i \in is :
             /\ VMActionAllowed(world[i], q.action)
             /\ world' = IF q.action = "delete" THEN RemoveAt(world, i)
                         ELSE [world EXCEPT ![i].state = IF q.action = "start" THEN "running" ELSE "stopped"]
  /\ UNCHANGED <<events, shown, pending, timers, due, click, sent, launches, imageRef, items>>

-----------------------------------------------------------------------------
(* Launching VMs and adding images                                         *)

\* selectImage: the confirmation is forgotten here, too.
SelectImage ==
  /\ shown.ok /\ Event /\ imageRef' = TRUE /\ pending' = NoPending
  /\ items' = EnabledItems(shown, imageRef')
  /\ UNCHANGED <<world, age, refreshID, refresh, shown, timers, due, click, requests, sent, launches>>

\* The goroutine l ends its step at and goes on to the next, or ends.
GoesOn(l, at, vm) == launches' = (launches \ {l}) \union {[l EXCEPT !.at = at, !.vm = vm]}
LaunchEnds(l) == launches' = launches \ {l}

\* promptAndLaunchImage and promptAndAddImage: the item is disabled while the user is asked.
PromptForImage(k) ==
  /\ k \in items /\ Event
  /\ IF shown.ok THEN launches' = launches \union {[item |-> k, id |-> events, at |-> "prompt", vm |-> {}]} /\ items' = items \ {k}
     ELSE UpdateActionState /\ UNCHANGED launches
  /\ UNCHANGED <<world, age, refreshID, refresh, shown, pending, timers, due, click, requests, sent, imageRef>>

\* Mutant: a prompt that is cancelled leaves the item disabled.
PromptCancelledSilently(l) ==
  /\ l.at = "prompt" /\ LaunchEnds(l)
  /\ UNCHANGED <<world, age, events, refreshID, refresh, shown, pending, timers, due, click, requests, sent, imageRef, items>>

\* The prompt fails or is cancelled ...
PromptCancelled(l) ==
  /\ l.at = "prompt" /\ LaunchEnds(l) /\ UpdateActionState
  /\ UNCHANGED <<world, age, events, refreshID, refresh, shown, pending, timers, due, click, requests, sent, imageRef>>

\* ... or gives an image: launchImageRef looks at the status once more.
LaunchImageRef(l) ==
  /\ l.at = "prompt" /\ l.item = "launch"
  /\ IF shown.ok THEN GoesOn(l, "create", {}) /\ items' = items \ {"launch", "cached"}
     ELSE LaunchEnds(l) /\ UpdateActionState
  /\ UNCHANGED <<world, age, events, refreshID, refresh, shown, pending, timers, due, click, requests, sent, imageRef>>

\* launchSelectedImage: the same, on a click on the item.
LaunchSelectedImage ==
  /\ "cached" \in items /\ imageRef /\ Event
  /\ IF shown.ok THEN /\ launches' = launches \union {[item |-> "cached", id |-> events, at |-> "create", vm |-> {}]}
                       /\ items' = items \ {"launch", "cached"}
     ELSE UpdateActionState /\ UNCHANGED launches
  /\ UNCHANGED <<world, age, refreshID, refresh, shown, pending, timers, due, click, requests, sent, imageRef>>

\* LaunchVMFromImage: create ...
LaunchCreates(l) ==
  /\ l.at = "create"
  /\ \E v \in TrayVMs :
       /\ \A i \in DOMAIN world : world[i].vm # v
       /\ world' = <<[vm |-> v, state |-> "stopped"]>> \o world /\ age' = age + 1 /\ GoesOn(l, "start", {v})
  /\ UNCHANGED <<events, refreshID, refresh, shown, pending, timers, due, click, requests, sent, imageRef, items>>

\* ... and start ...
LaunchStarts(l) ==
  /\ l.at = "start" /\ LaunchEnds(l) /\ Refresh /\ age' = age + 1
  /\ \E i \in DOMAIN world : world[i].vm \in l.vm /\ world' = [world EXCEPT ![i].state = "running"]
  /\ UNCHANGED <<events, shown, pending, timers, due, click, requests, sent, imageRef, items>>

\* ... or AddImage: a pull job is begun.
AddImage(l) ==
  /\ l.at = "prompt" /\ l.item = "add" /\ LaunchEnds(l) /\ Refresh
  /\ UNCHANGED <<world, age, events, shown, pending, timers, due, click, requests, sent, imageRef, items>>

\* An error ends it, and a VM that was created stays.  (A failed AddImage is PromptCancelled.)
LaunchFails(l) ==
  /\ l.at \in {"create", "start"} /\ LaunchEnds(l) /\ UpdateActionState
  /\ UNCHANGED <<world, age, events, refreshID, refresh, shown, pending, timers, due, click, requests, sent, imageRef>>

LaunchStep ==
  \E l \in launches : \/ PromptCancelled(l) \/ LaunchImageRef(l) \/ AddImage(l)
                      \/ LaunchCreates(l) \/ LaunchStarts(l) \/ LaunchFails(l)

TrayStep ==
  \/ \E r \in 1..MaxTrayEvents : CollectStatus(r) \/ ApplyRefresh(r)
  \/ LaunchStep

TrayNext ==
  \/ WorldChanges \/ RefreshStarts \/ TrayStep \/ SelectImage \/ LaunchSelectedImage
  \/ \E k \in {"launch", "add"} : PromptForImage(k)
  \/ \E i \in Rows : HandleClick(i) \/ \E a \in TrayActions : ClickRow(i, a)
  \/ \E t \in timers : WindowPasses(t) \/ ExpirePending(t)
  \/ \E q \in requests : ExecuteVMAction(q)

\* Requests have a timeout, so goroutines go on; the prompt ends some time.
TrayFairness == WF_trayVars(TrayStep)

-----------------------------------------------------------------------------
(***************************************************************************)
(* A VM is killed or deleted only if the user clicked on an item that said *)
(* "Confirm", in the row of that VM: whatever refreshes moved the rows or  *)
(* dropped the confirmation between the click and its handling.            *)
(***************************************************************************)
DestroyedWasConfirmed ==
  \A q \in sent : q.action \in {"kill", "delete"} => q.confirm /\ q.saw = q.vm

(***************************************************************************)
(* The menu never goes back: a status is not replaced by an older one,     *)
(* although refreshes overlap and their answers come in any order.         *)
(***************************************************************************)
ShownNeverGoesBack == [][shown'.age >= shown.age]_trayVars

(***************************************************************************)
(* An item for launching a VM or adding an image does not stay disabled:   *)
(* after a prompt that is cancelled, a launch that fails and one that      *)
(* succeeds, it is enabled again unless the daemon cannot be used.         *)
(***************************************************************************)
LaunchItemComesBack == []<>(shown.ok => {"launch", "add"} \subseteq items)
==============================================================================
