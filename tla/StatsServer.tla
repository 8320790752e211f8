---------------------------- MODULE StatsServer ----------------------------
(***************************************************************************)
(* The resource /cli/stats of src/network/gcoap: req_count, read and       *)
(* written from two threads without a lock.                                *)
(*                                                                         *)
(*   - the shell thread runs gcoap_cli_cmd(): it sends a request, adds one *)
(*     to the count (_send()) and notifies the observer of the resource    *)
(*     (notify_observers() in server.c);                                   *)
(*   - gcoap's thread runs _stats_handler().  Its priority is higher than  *)
(*     the shell's: it preempts the shell anywhere, and its handlers are   *)
(*     atomic for it.                                                      *)
(*                                                                         *)
(* gcoap is external: it keeps at most one observer of a resource, and     *)
(* gcoap_obs_init() and gcoap_obs_send() look it up anew.  The payload of  *)
(* a PUT is its length and the number that strtoul() makes of it, 0 of a   *)
(* text that is no number.                                                 *)
(***************************************************************************)
EXTENDS Integers

CONSTANTS
    Payloads,      \* what clients PUT
    MaxSends,      \* bound on the requests sent from the shell
    CountModulus   \* 2^16 for the uint16_t req_count

ASSUME PayloadsAssumption ==
    Payloads \subseteq [length : Nat, number : Nat]
ASSUME SendsAssumption == MaxSends \in Nat
ASSUME ModulusAssumption == CountModulus \in Nat \ {0}

Counts == 0..(CountModulus - 1)
MaxLength == 5

VARIABLES
    reqCount,   \* req_count
    shell,      \* where the shell stands in gcoap_cli_cmd()
    loaded,     \* req_count as the shell's increment loaded it
    notice,     \* the count in the buffer of notify_observers()
    observer,   \* whether gcoap has an observer of /cli/stats
    told,       \* history: the last count that was sent to the observer
    sends,      \* history: requests sent from the shell
    lastPut,    \* history: the count that the last PUT answered 2.04 set
    since,      \* history: increments since then
    torn,       \* history: that PUT fell into an increment
    unheard     \* history: a PUT or a failure came between the count and a notice of it

shellVars == <<shell, loaded, notice>>
putHistory == <<lastPut, since, torn>>
vars == <<reqCount, shellVars, observer, told, sends, putHistory, unheard>>

Init ==
    /\ reqCount = 0
    /\ shell = "prompt"
    /\ loaded = 0
    /\ notice = 0
    /\ observer = FALSE
    /\ told = 0
    /\ sends = 0
    /\ lastPut = 0
    /\ since = 0
    /\ torn = FALSE
    /\ unheard = FALSE

-----------------------------------------------------------------------------
(* The shell: gcoap_cli_cmd(), _send() and notify_observers().             *)

\* gcoap_req_send() took the request.  Where the command does not get that
\* far, or _send() returns 0, nothing changes.
CliSend ==
    /\ shell = "prompt"
    /\ sends < MaxSends
    /\ shell' = "sent"
    /\ sends' = sends + 1
    /\ UNCHANGED <<reqCount, loaded, notice, observer, told, putHistory, unheard>>

\* req_count++ begins: the count is loaded.
CliLoadCount ==
    /\ shell = "sent"
    /\ shell' = "counting"
    /\ loaded' = reqCount
    /\ UNCHANGED <<reqCount, notice, observer, told, sends, putHistory, unheard>>

\* Mutant: the count is wider than the variable that holds it.
CliStoreCountWide ==
    /\ shell = "counting"
    /\ shell' = "counted"
    /\ reqCount' = loaded + 1
    /\ since' = since + 1
    /\ UNCHANGED <<loaded, notice, observer, told, sends, lastPut, torn, unheard>>

\* Mutant: the command returns without a notification.
CliStoreCountUntold ==
    /\ shell = "counting"
    /\ shell' = "prompt"
    /\ reqCount' = (loaded + 1) % CountModulus
    /\ since' = since + 1
    /\ UNCHANGED <<loaded, notice, observer, told, sends, lastPut, torn, unheard>>

\* req_count++ ends: the incremented count is stored.
CliStoreCount ==
    /\ shell = "counting"
    /\ shell' = "counted"
    /\ reqCount' = (loaded + 1) % CountModulus
    /\ since' = since + 1
    /\ UNCHANGED <<loaded, notice, observer, told, sends, lastPut, torn, unheard>>

\* gcoap_obs_init() finds the observer; the count is formatted.
NotifyInit ==
    /\ shell = "counted"
    /\ observer
    /\ shell' = "notifying"
    /\ notice' = reqCount
    /\ unheard' = FALSE
    /\ UNCHANGED <<reqCount, loaded, observer, told, sends, putHistory>>

\* GCOAP_OBS_INIT_UNUSED, or GCOAP_OBS_INIT_ERR.
NotifyInitFails ==
    /\ shell = "counted"
    /\ shell' = "prompt"
    /\ unheard' = (unheard \/ observer)
    /\ UNCHANGED <<reqCount, loaded, notice, observer, told, sends, putHistory>>

\* gcoap_obs_send() to the observer there is now, if there is one.
NotifySend ==
    /\ shell = "notifying"
    /\ shell' = "prompt"
    /\ told' = IF observer THEN notice ELSE told
    /\ UNCHANGED <<reqCount, loaded, notice, observer, sends, putHistory, unheard>>

\* gcoap_obs_send() fails; its result is ignored.
NotifySendFails ==
    /\ shell = "notifying"
    /\ shell' = "prompt"
    /\ unheard' = (unheard \/ observer)
    /\ UNCHANGED <<reqCount, loaded, notice, observer, told, sends, putHistory>>

-----------------------------------------------------------------------------
(* gcoap's thread: _stats_handler().                                       *)

\* GET with an Observe option: the client becomes the observer, and is
\* answered with the count.  A notice of an older count may be on its way
\* to gcoap_obs_send().
StatsObserve ==
    /\ observer' = TRUE
    /\ told' = reqCount
    /\ unheard' = (unheard /\ shell = "notifying")
    /\ UNCHANGED <<reqCount, shellVars, sends, putHistory>>

\* GET that ends the observation.
StatsForget ==
    /\ observer' = FALSE
    /\ unheard' = (unheard /\ shell = "notifying")
    /\ UNCHANGED <<reqCount, shellVars, told, sends, putHistory>>

\* Mutant: the number is added to the count.
StatsPutAdds(p) ==
    /\ p.length <= MaxLength
    /\ reqCount' = (reqCount + p.number) % CountModulus
    /\ lastPut' = p.number % CountModulus
    /\ since' = 0
    /\ torn' = (shell = "counting")
    /\ unheard' = TRUE
    /\ UNCHANGED <<shellVars, observer, told, sends>>

\* PUT of at most five characters: strtoul(), cut to 16 bits.  A longer one
\* is answered 4.00 and changes nothing.
StatsPut(p) ==
    /\ p.length <= MaxLength
    /\ reqCount' = p.number % CountModulus
    /\ lastPut' = p.number % CountModulus
    /\ since' = 0
    /\ torn' = (shell = "counting")
    /\ unheard' = TRUE
    /\ UNCHANGED <<shellVars, observer, told, sends>>

-----------------------------------------------------------------------------
Shell ==
    \/ CliSend
    \/ CliLoadCount
    \/ CliStoreCount
    \/ NotifyInit
    \/ NotifyInitFails
    \/ NotifySend
    \/ NotifySendFails

Gcoap ==
    \/ StatsObserve
    \/ StatsForget
    \/ \E p \in Payloads : StatsPut(p)

Next == Shell \/ Gcoap

Spec == Init /\ [][Next]_vars

-----------------------------------------------------------------------------
(* Properties.                                                             *)

\* Every variable is of its kind.
TypeOK ==
    /\ reqCount \in Counts /\ loaded \in Counts /\ notice \in Counts
    /\ shell \in {"prompt", "sent", "counting", "counted", "notifying"}
    /\ observer \in BOOLEAN /\ told \in Counts
    /\ sends \in 0..MaxSends
    /\ lastPut \in Counts /\ since \in 0..MaxSends
    /\ torn \in BOOLEAN /\ unheard \in BOOLEAN

\* The count is the one that was PUT last ("PUT: Updates the count of packets",
\* server.c:107) and the requests counted since then, but for a PUT that came
\* between the load and the store of an increment (client.c:176): no other
\* order of the two threads' steps loses a PUT or an increment.
CountIsExact == ~torn => reqCount = (lastPut + since) % CountModulus

\* An observer knows the count whenever the shell is at rest, though it may
\* register, leave and come back at any step of the notification; only a PUT
\* or a notification that cannot be sent leaves it behind (server.c:163-186).
ObserverKnowsCount == shell = "prompt" /\ observer /\ ~unheard => told = reqCount

=============================================================================
