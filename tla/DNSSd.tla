------------------------------- MODULE DNSSd --------------------------------
(***************************************************************************)
(* DNS-SD publishers (dnssd.go) on top of Avahi (dnssd_avahi.go).  All     *)
(* publishers of this module have the same DNS-SD name, which is when      *)
(* collisions happen.  A service instance name is its suffix: 0 stands for *)
(* " (USB)" and k > 0 for " (USB k)".                                      *)
(*                                                                         *)
(* Three threads meet: the publisher's goroutine, the thread of Avahi,     *)
(* whose callbacks run under the lock of its threaded poll and send to the *)
(* status channel, and the thread that calls Publish and Unpublish.        *)
(***************************************************************************)
EXTENDS Naturals, Sequences

CONSTANTS
  Pub,        \* publishers
  NoPub,      \* the lock of Avahi is free
  NameOnly,   \* value of DNSSdOverride just after initialization: DNSSdName
  Foreign,    \* instance names used by other hosts
  ChanCap,    \* capacity of statusChan
  Faults      \* bound on failures and on late collisions

ASSUME DNSSdAssumption ==
  /\ NoPub \notin Pub /\ NameOnly \notin Nat
  /\ Foreign \subseteq Nat
  /\ ChanCap \in Nat \ {0} /\ Faults \in Nat

VARIABLES
  gpc,       \* where the goroutine is, "off" if it does not run
  fin,       \* the channel fin is closed
  suffix,    \* the local variable suffix of the goroutine
  instance,  \* its local variable instance
  timer,     \* the retry timer is armed
  override,  \* DevState.DNSSdOverride
  egroup,    \* state of the entry group, "none" if there is no group
  chan,      \* statusChan
  callback,  \* the callback that holds the lock, or NoPub
  faults,    \* faults so far
  earned,    \* history: names under which a publisher was established: that of
             \* its dnssdSysdep, and the one it has saved
  leaked     \* history: entry groups that lost their dnssdSysdep

pubVars   == <<gpc, fin, suffix, instance, timer, override>>
avahiVars == <<egroup, chan, callback, faults, earned, leaked>>
dnssdVars      == <<pubVars, avahiVars>>

Status == {"Collision", "Failure", "Success"}

DNSSdTypeOK ==
  /\ gpc \in [Pub -> {"off", "publish", "select", "halt", "new", "exit"}]
  /\ fin \in [Pub -> BOOLEAN]
  /\ suffix \in [Pub -> Nat]
  /\ instance \in [Pub -> Nat]
  /\ timer \in [Pub -> BOOLEAN]
  /\ override \in [Pub -> Nat \cup {NameOnly}]
  /\ egroup \in [Pub -> {"none", "registering", "established", "dead"}]
  /\ chan \in [Pub -> Seq(Status)]
  /\ \A p \in Pub : Len(chan[p]) <= ChanCap
  /\ callback = NoPub \/ callback \in Pub \X Status
  /\ faults \in 0..Faults
  /\ earned \in [Pub -> SUBSET Nat]

DNSSdInit ==
  /\ gpc = [p \in Pub |-> "off"]
  /\ fin = [p \in Pub |-> FALSE]
  /\ suffix = [p \in Pub |-> 0]
  /\ instance = [p \in Pub |-> 0]
  /\ timer = [p \in Pub |-> FALSE]
  /\ override = [p \in Pub |-> NameOnly]
  /\ egroup = [p \in Pub |-> "none"]
  /\ chan = [p \in Pub |-> <<>>]
  /\ callback = NoPub
  /\ faults = 0
  /\ earned = [p \in Pub |-> {}]
  /\ leaked = {}

Unlocked == callback = NoPub

\* publisher.instance
InstanceName(p, sfx) ==
  IF sfx # 0 THEN sfx ELSE IF override[p] = NameOnly THEN 0 ELSE override[p]

-----------------------------------------------------------------------------
(* dnssd_avahi.go: dnssdSysdep.                                            *)

\* Names that the local Avahi has registered or tries to.
InUse(p) == {instance[q] : q \in {r \in Pub \ {p} : egroup[r] # "none"}}

\* newDnssdSysdep with a fresh channel.  Its own errors are notified after
\* haltLocked.  The old dnssdSysdep must have been halted.
newDnssdSysdep(p, name) ==
  /\ Unlocked
  /\ leaked' = IF egroup[p] = "none" THEN leaked ELSE leaked \cup {p}
  /\ \/ /\ name \notin InUse(p)
        /\ egroup' = [egroup EXCEPT ![p] = "registering"]
        /\ chan' = [chan EXCEPT ![p] = <<>>]
        /\ UNCHANGED faults
     \/ /\ name \in InUse(p)
        /\ egroup' = [egroup EXCEPT ![p] = "none"]
        /\ chan' = [chan EXCEPT ![p] = <<"Collision">>]
        /\ UNCHANGED faults
     \/ /\ faults < Faults
        /\ faults' = faults + 1
        /\ egroup' = [egroup EXCEPT ![p] = "none"]
        /\ chan' = [chan EXCEPT ![p] = <<"Failure">>]
  /\ earned' = [earned EXCEPT ![p] = @ \cap {override[p]}]
  /\ UNCHANGED callback

\* Mutant: Halt does not take the lock.
HaltUnlocked(p) ==
  /\ egroup' = [egroup EXCEPT ![p] = "none"]
  /\ chan' = [chan EXCEPT ![p] = <<>>]
  /\ UNCHANGED <<callback, faults, earned, leaked>>

\* Halt: haltLocked under the lock.
Halt(p) ==
  /\ Unlocked
  /\ egroup' = [egroup EXCEPT ![p] = "none"]
  /\ chan' = [chan EXCEPT ![p] = <<>>]
  /\ UNCHANGED <<callback, faults, earned, leaked>>

\* What Avahi may report of an entry group or of its client, and the state it
\* leaves the entry group in.
AvahiReports(p, status, state) ==
  \/ /\ egroup[p] = "registering" /\ instance[p] \notin Foreign
     /\ status = "Success" /\ state = "established"
     /\ UNCHANGED faults
  \/ /\ egroup[p] = "registering" /\ instance[p] \in Foreign
     /\ status = "Collision" /\ state = "dead"
     /\ UNCHANGED faults
  \/ /\ egroup[p] = "established"
     /\ status = "Collision" /\ state = "dead"
     /\ faults < Faults /\ faults' = faults + 1
  \/ /\ egroup[p] # "none"
     /\ status = "Failure" /\ state = "dead"
     /\ faults < Faults /\ faults' = faults + 1

\* avahiClientCallback or avahiEntryGroupCallback, called with the lock held,
\* finds its dnssdSysdep ...
Callback(p) ==
  /\ Unlocked
  /\ \E status \in Status, state \in {"established", "dead"} :
       /\ AvahiReports(p, status, state)
       /\ callback' = <<p, status>>
       /\ egroup' = [egroup EXCEPT ![p] = state]
       /\ earned' = IF state = "established"
                    THEN [earned EXCEPT ![p] = @ \cup {instance[p]}] ELSE earned
  /\ UNCHANGED <<pubVars, chan, leaked>>

\* ... and notifies it: a send that blocks while the channel is full.
Notify ==
  /\ callback # NoPub
  /\ Len(chan[callback[1]]) < ChanCap
  /\ chan' = [chan EXCEPT ![callback[1]] = Append(@, callback[2])]
  /\ callback' = NoPub
  /\ UNCHANGED <<pubVars, egroup, faults, earned, leaked>>

-----------------------------------------------------------------------------
(* dnssd.go: DNSSdPublisher.                                               *)

\* Publish
Publish(p) ==
  /\ gpc[p] = "off"
  /\ newDnssdSysdep(p, InstanceName(p, 0))
  /\ gpc' = [gpc EXCEPT ![p] = "select"]
  /\ instance' = [instance EXCEPT ![p] = InstanceName(p, 0)]
  /\ UNCHANGED <<fin, suffix, timer, override>>

\* Mutant: a collision does not change the name that is tried next.
ReceiveSameName(p) ==
  /\ gpc[p] = "select"
  /\ chan[p] # <<>>
  /\ chan' = [chan EXCEPT ![p] = Tail(@)]
  /\ LET status == Head(chan[p]) IN
       /\ override' = IF status = "Success"
                      THEN [override EXCEPT ![p] = instance[p]] ELSE override
       /\ gpc' = IF status = "Success" THEN gpc ELSE [gpc EXCEPT ![p] = "halt"]
  /\ UNCHANGED <<fin, suffix, instance, timer, egroup, callback, faults,
                 earned, leaked>>

\* Mutant: the name is saved when it is tried, not when it is established.
ReceiveSavesEarly(p) ==
  /\ gpc[p] = "select"
  /\ chan[p] # <<>>
  /\ chan' = [chan EXCEPT ![p] = Tail(@)]
  /\ LET status == Head(chan[p]) IN
       /\ override' = [override EXCEPT ![p] = instance[p]]
       /\ suffix' = IF status = "Collision"
                    THEN [suffix EXCEPT ![p] = @ + 1] ELSE suffix
       /\ gpc' = IF status = "Success" THEN gpc ELSE [gpc EXCEPT ![p] = "halt"]
  /\ UNCHANGED <<fin, instance, timer, egroup, callback, faults, earned,
                 leaked>>

\* The goroutine receives a status: a new name is saved, a collision or a
\* failure is followed by Halt.
Receive(p) ==
  /\ gpc[p] = "select"
  /\ chan[p] # <<>>
  /\ chan' = [chan EXCEPT ![p] = Tail(@)]
  /\ LET status == Head(chan[p]) IN
       /\ override' = IF status = "Success"
                      THEN [override EXCEPT ![p] = instance[p]] ELSE override
       /\ suffix' = IF status = "Collision"
                    THEN [suffix EXCEPT ![p] = @ + 1] ELSE suffix
       /\ gpc' = IF status = "Success" THEN gpc ELSE [gpc EXCEPT ![p] = "halt"]
  /\ UNCHANGED <<fin, instance, timer, egroup, callback, faults, earned,
                 leaked>>

\* publisher.sysdep.Halt(), and the timer is started.
HaltRetry(p) ==
  /\ gpc[p] = "halt"
  /\ Halt(p)
  /\ timer' = [timer EXCEPT ![p] = TRUE]
  /\ gpc' = [gpc EXCEPT ![p] = "select"]
  /\ UNCHANGED <<fin, suffix, instance, override>>

TimerExpires(p) ==
  /\ gpc[p] = "select"
  /\ timer[p]
  /\ timer' = [timer EXCEPT ![p] = FALSE]
  /\ gpc' = [gpc EXCEPT ![p] = "new"]
  /\ UNCHANGED <<fin, suffix, instance, override, avahiVars>>

Retry(p) ==
  /\ gpc[p] = "new"
  /\ newDnssdSysdep(p, InstanceName(p, suffix[p]))
  /\ instance' = [instance EXCEPT ![p] = InstanceName(p, suffix[p])]
  /\ gpc' = [gpc EXCEPT ![p] = "select"]
  /\ UNCHANGED <<fin, suffix, timer, override>>

\* Unpublish closes fin, ...
CloseFin(p) ==
  /\ gpc[p] \notin {"off", "exit"}
  /\ ~fin[p]
  /\ fin' = [fin EXCEPT ![p] = TRUE]
  /\ UNCHANGED <<gpc, suffix, instance, timer, override, avahiVars>>

\* Mutant: the goroutine looks at fin only after it has received a status.
GoroutineExitBusy(p) ==
  /\ gpc[p] = "select"
  /\ fin[p]
  /\ chan[p] # <<>>
  /\ chan' = [chan EXCEPT ![p] = Tail(@)]
  /\ gpc' = [gpc EXCEPT ![p] = "exit"]
  /\ suffix' = [suffix EXCEPT ![p] = 0]
  /\ timer' = [timer EXCEPT ![p] = FALSE]
  /\ UNCHANGED <<fin, instance, override, egroup, callback, faults, earned, leaked>>

\* ... waits for the goroutine, whose variables go with it, ...
GoroutineExit(p) ==
  /\ gpc[p] = "select"
  /\ fin[p]
  /\ gpc' = [gpc EXCEPT ![p] = "exit"]
  /\ suffix' = [suffix EXCEPT ![p] = 0]
  /\ timer' = [timer EXCEPT ![p] = FALSE]
  /\ UNCHANGED <<fin, instance, override, avahiVars>>

\* Mutant: ... and leaves the dnssdSysdep to the goroutine ...
UnpublishNoHalt(p) ==
  /\ gpc[p] = "exit"
  /\ gpc' = [gpc EXCEPT ![p] = "off"]
  /\ fin' = [fin EXCEPT ![p] = FALSE]
  /\ instance' = [instance EXCEPT ![p] = 0]
  /\ UNCHANGED <<suffix, timer, override, avahiVars>>

\* ... and halts what it left.
UnpublishHalt(p) ==
  /\ gpc[p] = "exit"
  /\ Halt(p)
  /\ gpc' = [gpc EXCEPT ![p] = "off"]
  /\ fin' = [fin EXCEPT ![p] = FALSE]
  /\ instance' = [instance EXCEPT ![p] = 0]
  /\ UNCHANGED <<suffix, timer, override>>

-----------------------------------------------------------------------------

GoroutineStep(p) ==
  \/ Receive(p) \/ HaltRetry(p) \/ TimerExpires(p) \/ Retry(p)
  \/ GoroutineExit(p)

DNSSdNext ==
  \/ Notify
  \/ \E p \in Pub :
       Callback(p) \/ Publish(p) \/ CloseFin(p) \/ UnpublishHalt(p)
         \/ GoroutineStep(p)

(***************************************************************************)
(* Goroutines and the thread of Avahi run.  The lock of Avahi is a mutex   *)
(* that no waiter is denied forever, hence strong fairness for what needs  *)
(* it.  Which case a select takes is left open.                            *)
(***************************************************************************)
DNSSdFairness ==
  /\ WF_dnssdVars(Notify)
  /\ \A p \in Pub :
       /\ SF_dnssdVars(Callback(p) /\ egroup[p] = "registering")
       /\ SF_dnssdVars(GoroutineStep(p) \/ UnpublishHalt(p))

DNSSdSpec == DNSSdInit /\ [][DNSSdNext]_dnssdVars /\ DNSSdFairness

-----------------------------------------------------------------------------
(* Properties.                                                             *)

\* Variables are well typed, and nothing stays published: after Unpublish, and
\* after every retry, no entry group exists that no dnssdSysdep owns, and a
\* retry is pending only while nothing is registered, so that a name is never
\* tried beside the one it replaces.
NothingLeaked ==
  /\ DNSSdTypeOK
  /\ leaked = {}
  /\ \A p \in Pub : gpc[p] = "off" \/ timer[p] => egroup[p] = "none"

\* The comment of Halt: "no notifications will be pushed there anymore".
HaltedQuiet ==
  \A p \in Pub : egroup[p] = "none" => callback = NoPub \/ callback[1] # p

\* The name saved in DevState is one under which this device was really
\* established, never one that was only tried.
OverrideEarned ==
  \A p \in Pub : override[p] \in earned[p] \cup {NameOnly}

\* A callback waits, with the lock of Avahi held, for room in the channel of a
\* publisher whose goroutine, or whose Unpublish, waits for that lock to call
\* Halt.  Neither can go on, nor can any other publisher that needs Avahi.
Wedged ==
  /\ callback # NoPub
  /\ Len(chan[callback[1]]) = ChanCap
  /\ gpc[callback[1]] \in {"halt", "exit"}

\* Unpublish returns, whatever Avahi reports meanwhile, unless it reports more
\* of one entry group, before it is halted, than the status channel can hold.
UnpublishEnds == \A p \in Pub : fin[p] ~> (gpc[p] = "off" \/ Wedged)

\* Services get published: a publisher that is not stopped finds a free name,
\* with as many devices and other hosts as want the same one, unless the
\* thread of Avahi is blocked as above.
GetsPublished ==
  \A p \in Pub :
    (gpc[p] = "select") ~> (egroup[p] = "established" \/ fin[p] \/ Wedged)

\* The manual: "the single "Kyocera ECOSYS M2040dn" device will be listed as
\* "Kyocera ECOSYS M2040dn (USB)", and two such a devices will be listed as
\* "Kyocera ECOSYS M2040dn (USB 1)" and "Kyocera ECOSYS M2040dn (USB 2)"".
\* It does not hold: the first of two devices keeps its name.
TwoDevicesNumbered ==
  \A p, q \in Pub :
    p # q /\ egroup[p] = "established" /\ egroup[q] = "established"
      => instance[p] # 0
=============================================================================
