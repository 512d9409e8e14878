----------------------------- MODULE RtAiDevice -----------------------------
(***************************************************************************)
(* How one resource tells the completions of its present command from      *)
(* stale ones: the (epoch, cookie) pair of os/coordinator.c and            *)
(* os/recovery.c.  The device is external: of every command it ever saw it *)
(* may report the completion at any later time, any number of times or     *)
(* never, in any order, across cancellations and resets.                   *)
(*                                                                         *)
(* RtAiRuntime follows the jobs and abstracts the pair to the flag         *)
(* "current"; this module follows the numbers and forgets the jobs.        *)
(***************************************************************************)
EXTENDS Integers

CONSTANTS
  Width,         \* 2^32 in the code: epochs and cookies count modulo Width
  ResetTries,    \* at most this many reset_begin calls in one step
  CommandBound   \* commands the model dispatches in all

ASSUME DeviceAssumption ==
  Width \in Nat /\ Width > 1 /\ ResetTries \in Nat \ {0} /\ CommandBound \in Nat

VARIABLES
  state,     \* resource_state
  epoch,     \* epoch
  next,      \* next_cookie: 0 once all cookies of the epoch are used
  active,    \* the command active_job and active_segment stand for, or NoCommand
  cookie,    \* active_cookie
  segment,   \* segment_state of the active segment: "running", "held" or "none"
  issued,    \* commands numbered so far
  finished,  \* the commands whose completion was accepted
  reports    \* the completions the device may deliver

deviceVars == <<state, epoch, next, active, cookie, segment, issued, finished, reports>>

NoCommand == -1
Commands == 0..(CommandBound - 1)
Epochs == 0..(Width - 1)
Reports == [cmd : Commands, epoch : Epochs, cookie : Epochs]
Recovering == {"cancel", "reset", "reinit"}

DeviceInit ==
  /\ state = "healthy" /\ epoch = 1 /\ next = 1
  /\ active = NoCommand /\ cookie = 0 /\ segment = "none"
  /\ issued = 0 /\ finished = {} /\ reports = {}

\* The resource is handed back: release_completed, recovery_done and the
\* failure paths of dispatch, rt_ai_complete_isr and rt_ai_abort_job.
Free(s) == state' = s /\ active' = NoCommand /\ cookie' = 0 /\ segment' = "none"

-----------------------------------------------------------------------------
\* Seeded fault: the last epoch is spent like any other.
NeverExhausted == FALSE

\* All cookies of the last epoch are used.
Exhausted == next = 0 /\ epoch = Width - 1

\* Seeded faults: cookies start again in the same epoch; the counter is
\* wider than the cookies it hands out.
SameEpochTag == [epoch |-> epoch, cookie |-> IF next = 0 THEN 1 ELSE next]
NextCookieUnwrapped(c) == c + 1

\* The tag of the next command: a new epoch when the cookies are used up.
Tag == IF next = 0 THEN [epoch |-> (epoch + 1) % Width, cookie |-> 1]
       ELSE [epoch |-> epoch, cookie |-> next]
NextCookie(c) == (c + 1) % Width

Submitted == [cmd |-> issued, epoch |-> Tag.epoch, cookie |-> Tag.cookie]

\* dispatch: the coherency hook fails before the device sees the command, the
\* provider refuses it (the device may still have seen it), or it runs.
Dispatch ==
  /\ state = "healthy" /\ active = NoCommand
  /\ issued < CommandBound
  /\ ~Exhausted
  /\ epoch' = Tag.epoch /\ next' = NextCookie(Tag.cookie)
  /\ issued' = issued + 1
  /\ \/ Free("healthy") /\ UNCHANGED reports
     \/ Free("healthy") /\ reports' = reports \cup {Submitted}
     \/ /\ state' = "running" /\ active' = issued /\ cookie' = Tag.cookie /\ segment' = "running"
        /\ reports' = reports \cup {Submitted}
  /\ UNCHANGED finished

DispatchExhausted ==
  /\ state = "healthy" /\ active = NoCommand
  /\ Exhausted
  /\ state' = "quarantined"
  /\ UNCHANGED <<epoch, next, active, cookie, segment, issued, finished, reports>>

-----------------------------------------------------------------------------
\* Seeded faults: the check forgets the epoch, or that the segment is done.
AcceptsAnyEpoch(m) == active # NoCommand /\ m.cookie = cookie /\ segment = "running"
AcceptsTwice(m) == m.epoch = epoch /\ active # NoCommand /\ m.cookie = cookie

\* The acceptance test of rt_ai_complete_isr.
Accepts(m) == m.epoch = epoch /\ active # NoCommand /\ m.cookie = cookie /\ segment = "running"

\* rt_ai_complete_isr: an accepted completion is held to the end of its budget
\* or frees the resource, also when it reports an error; any other is stale.
Complete(m) ==
  /\ Accepts(m)
  /\ \/ segment' = "held" /\ UNCHANGED <<state, active, cookie>>
     \/ Free("healthy")
  /\ finished' = finished \cup {active}
  /\ UNCHANGED <<epoch, next, issued, reports>>

\* rt_ai_poll at the end of a held segment's budget.
ReleaseHeld ==
  /\ active # NoCommand /\ segment = "held"
  /\ Free("healthy")
  /\ UNCHANGED <<epoch, next, issued, finished, reports>>

\* rt_ai_abort_job on this resource: a held segment or a provider without
\* asynchronous cancellation is freed at once.
Cancel ==
  /\ state = "running"
  /\ \/ Free("healthy")
     \/ segment = "running" /\ state' = "cancel" /\ UNCHANGED <<active, cookie, segment>>
  /\ UNCHANGED <<epoch, next, issued, finished, reports>>

CancelAcknowledged ==
  /\ state = "cancel"
  /\ Free("healthy")
  /\ UNCHANGED <<epoch, next, issued, finished, reports>>

\* n calls of begin_reset in one step and where recovery stands after it.  Any
\* state may be reset: rt_ai_reset_device does not ask.  The counter is not
\* checked; the model stops before 2^32 epochs are used up.
Reset(n) ==
  /\ epoch + n < Width
  /\ epoch' = epoch + n
  /\ \/ state' = "reset" /\ UNCHANGED <<active, cookie, segment>>
     \/ state' = "reinit" /\ UNCHANGED <<active, cookie, segment>>
     \/ Free("healthy")
     \/ Free("quarantined")
  /\ UNCHANGED <<next, issued, finished, reports>>

\* rt_ai_recovery_poll without another reset.
RecoveryPolled ==
  /\ state \in {"reset", "reinit"}
  /\ \/ state = "reset" /\ state' = "reinit" /\ UNCHANGED <<active, cookie, segment>>
     \/ Free("healthy")
     \/ Free("quarantined")
  /\ UNCHANGED <<epoch, next, issued, finished, reports>>

DeviceNext ==
  \/ Dispatch
  \/ DispatchExhausted
  \/ \E m \in reports : Complete(m)
  \/ ReleaseHeld
  \/ Cancel
  \/ CancelAcknowledged
  \/ \E n \in 1..ResetTries : Reset(n)
  \/ RecoveryPolled

DeviceSpec == DeviceInit /\ [][DeviceNext]_deviceVars

-----------------------------------------------------------------------------
\* Epochs and cookies stay 32-bit numbers and name commands that were issued.
DeviceTypeOK ==
  /\ state \in {"healthy", "running", "quarantined"} \cup Recovering
  /\ epoch \in Epochs /\ next \in Epochs /\ cookie \in Epochs
  /\ active \in Commands \cup {NoCommand} /\ segment \in {"none", "running", "held"}
  /\ issued \in 0..CommandBound
  /\ finished \subseteq Commands /\ reports \subseteq Reports

\* rt_ai_complete_isr credits a completion to the command it belongs to, and
\* to each command once, whatever the device repeats, delays or reorders.
StaleIsolation ==
  \A m \in reports : Accepts(m) => m.cmd = active /\ m.cmd \notin finished

\* Once begin_reset has run, nothing the device says of the command it was
\* taken from is believed.
ResetSilences ==
  state \in {"reset", "reinit", "quarantined"} => \A m \in reports : ~Accepts(m)

\* No two commands ever share a tag: when the cookies of an epoch are used up
\* dispatch goes on in a new epoch or not at all.
TagsUnique ==
  \A m, n \in reports : m.epoch = n.epoch /\ m.cookie = n.cookie => m.cmd = n.cmd

\* The epoch only grows, also where cookie exhaustion advances it.
EpochGrows == [][epoch' >= epoch]_epoch
=============================================================================
