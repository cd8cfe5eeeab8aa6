----------------------------- MODULE NetProbes -----------------------------
(***************************************************************************)
(* The connections of WebToolsService: port checks, which try the first    *)
(* addresses of a host, each with a timeout, all ports at once; and looks  *)
(* at certificates, which connect and shake hands with blocking calls in   *)
(* the event loop, so that meanwhile nothing else in the process moves.    *)
(*                                                                         *)
(* Time goes in ticks.  The event loop does at once what is due, unless it *)
(* is blocked; timers that are due then win over what has arrived, because *)
(* a timeout cancels the task whose connection is already there.           *)
(***************************************************************************)
EXTENDS Integers, Sequences, FiniteSets

CONSTANTS
  Ports, TlsChecks,   \* one check of several ports, and certificate checks
  Hosts,              \* what the addresses of a host do: sequences of answers
  MaxTries,           \* addresses that are tried (4)
  Timeout,            \* of a port check, in ticks
  TlsTimeout,         \* of each of the two blocking calls
  MaxTime

VARIABLES
  host,      \* for each port, the answers of the addresses: [kind, delay]
  now,
  blocked,   \* until when the loop is blocked
  port,      \* for each port: the address in turn, since when, the verdict
  tls        \* for each certificate check: not asked yet, asked or ended

probeVars == <<host, now, blocked, port, tls>>

ProbesInit ==
  /\ host \in {h \in [Ports -> Hosts] : \A p, q \in Ports : Len(h[p]) = Len(h[q])}
  /\ now = 0 /\ blocked = 0
  /\ port = [p \in Ports |-> [try |-> 1, since |-> 0, verdict |-> "none", hidden |-> FALSE]]
  /\ tls = [t \in TlsChecks |-> "idle"]

-----------------------------------------------------------------------------
Free == now >= blocked

Trying(p) == port[p].verdict = "none"

Deadline(p) == port[p].since + Timeout

Answer(p) == host[p][port[p].try]

\* The connection is made, refused, or made and reset before it is closed.
Arrived(p) == Answer(p).kind # "silent" /\ port[p].since + Answer(p).delay <= now

Expired(p) == Deadline(p) <= now

\* Mutant: the last address that is tried is left out of the verdict.
OneLess(p) == IF MaxTries < Len(host[p]) THEN MaxTries - 1 ELSE Len(host[p])

\* How many of the addresses that the guard has let through are tried.
Tried(p) == IF MaxTries < Len(host[p]) THEN MaxTries ELSE Len(host[p])

\* After an error: the next address, or the verdict that the port is closed.
\* hidden is history: an answer in time has been lost.
NextAddress(p, lost) ==
  LET hidden == port[p].hidden \/ lost IN
  port' = IF port[p].try < Tried(p)
          THEN [port EXCEPT ![p].try = @ + 1, ![p].since = now, ![p].hidden = hidden]
          ELSE [port EXCEPT ![p].verdict = "closed", ![p].hidden = hidden]

TimesOut(p) ==
  /\ Free /\ Trying(p) /\ Expired(p)
  /\ NextAddress(p, Answer(p).kind = "accepts" /\ Answer(p).delay < Timeout)
  /\ UNCHANGED <<host, now, blocked, tls>>

\* wait_closed raises what has reset the connection, as if it had been refused.
Connects(p) ==
  /\ Free /\ Trying(p) /\ Arrived(p) /\ ~Expired(p)
  /\ IF Answer(p).kind = "accepts"
     THEN port' = [port EXCEPT ![p].verdict = "open"]
     ELSE NextAddress(p, FALSE)
  /\ UNCHANGED <<host, now, blocked, tls>>

\* A certificate check takes the loop for as long as its two calls take.
TlsLookup(t) ==
  /\ Free /\ tls[t] = "asked"
  /\ \E d \in 0..(2 * TlsTimeout) : blocked' = now + d
  /\ tls' = [tls EXCEPT ![t] = "ended"]
  /\ UNCHANGED <<host, now, port>>

TlsAsked(t) ==
  /\ tls[t] = "idle"
  /\ tls' = [tls EXCEPT ![t] = "asked"]
  /\ UNCHANGED <<host, now, blocked, port>>

\* Time passes while the loop has nothing to do or is blocked.
Tick ==
  /\ now < MaxTime
  /\ Free => /\ \A p \in Ports : Trying(p) => ~Arrived(p) /\ ~Expired(p)
             /\ \A t \in TlsChecks : tls[t] # "asked"
  /\ now' = now + 1
  /\ UNCHANGED <<host, blocked, port, tls>>

ProbesNext ==
  \/ \E p \in Ports : TimesOut(p) \/ Connects(p)
  \/ \E t \in TlsChecks : TlsAsked(t) \/ TlsLookup(t)
  \/ Tick

ProbesSpec == ProbesInit /\ [][ProbesNext]_probeVars

-----------------------------------------------------------------------------
\* A port is called open only for an address that accepts, and closed only
\* when none of the first four addresses accepts in time, unless a
\* certificate check has held the loop past the deadline, so that the answer
\* was lost; and a check takes no longer than its timeouts and what
\* certificate checks took meanwhile (port_check, tls_lookup).
PortsTruthful ==
  \A p \in Ports :
    /\ port[p].verdict = "open" => Answer(p).kind = "accepts" /\ Answer(p).delay < Timeout
    /\ port[p].verdict = "closed" /\ ~port[p].hidden =>
         \A k \in DOMAIN host[p] :
           k <= MaxTries => host[p][k].kind # "accepts" \/ host[p][k].delay >= Timeout
    /\ port[p].hidden => blocked >= Timeout
    /\ Trying(p) => now <= Tried(p) * Timeout + 2 * TlsTimeout * Cardinality({t \in TlsChecks : tls[t] = "ended"})
=============================================================================
