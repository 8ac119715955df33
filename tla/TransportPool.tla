--------------------------- MODULE TransportPool ---------------------------
(***************************************************************************)
(* The pool of HTTP transports, internal/transport/transport.go, as the    *)
(* clients of repositories use it: a download borrows a transport, sets    *)
(* the TLS configuration of its client on it, hands it to the getter at    *)
(* the end of the client's options, and gives it back without the          *)
(* configuration.                                                          *)
(*                                                                         *)
(* append(r.Options, getter.WithTransport(t)) makes a new array, unless    *)
(* the slice of options has room for one more: then it writes into the     *)
(* array all downloads of that client share.  They share its getter, too,  *)
(* an interface of Helm's, which may keep the options it is called with.   *)
(* So there are clients whose downloads find their transport in one place, *)
(* where the last of them has left its own.                                *)
(*                                                                         *)
(* The module is a part: ChartRepository says when a thread borrows.       *)
(***************************************************************************)
CONSTANTS
  Repo,        \* the clients, one per repository
  Thread,      \* the goroutines that download
  RepoOf,      \* the client each of them uses, NoRepo for none
  NoRepo,
  Transport,   \* http.Transports
  NoTransport

ASSUME TransportAssumption ==
  /\ RepoOf \in [Thread -> Repo \cup {NoRepo}] /\ NoRepo \notin Repo
  /\ NoTransport \notin Transport

VARIABLES
  shared,  \* the clients whose downloads find their transport in one place
  lent,    \* the transport each thread has borrowed
  tls,     \* the client whose TLS configuration a transport has
  lastOpt  \* what each of these has there

pool == <<lent, tls, lastOpt>>

PoolTypeOK ==
  /\ shared \subseteq Repo
  /\ lent \in [Thread -> Transport \cup {NoTransport}]
  /\ tls \in [Transport -> Repo \cup {NoRepo}]
  /\ lastOpt \in [Repo -> Transport \cup {NoTransport}]

PoolInit ==
  /\ lent = [t \in Thread |-> NoTransport]
  /\ tls = [u \in Transport |-> NoRepo]
  /\ lastOpt = [r \in Repo |-> NoTransport]

Idle == {u \in Transport : \A t \in Thread : lent[t] # u}

\* Mutant of NewOrIdle: the pool gives away a transport that is in use.
NewOrBusy(t) ==
  \E u \in Transport :
    /\ lent' = [lent EXCEPT ![t] = u]
    /\ tls' = [tls EXCEPT ![u] = RepoOf[t]]
    /\ lastOpt' = IF RepoOf[t] \in shared THEN [lastOpt EXCEPT ![RepoOf[t]] = u] ELSE lastOpt

\* NewOrIdle, and the append to the options the getter is called with.
NewOrIdle(t) ==
  \E u \in Idle :
    /\ lent' = [lent EXCEPT ![t] = u]
    /\ tls' = [tls EXCEPT ![u] = RepoOf[t]]
    /\ lastOpt' = IF RepoOf[t] \in shared THEN [lastOpt EXCEPT ![RepoOf[t]] = u] ELSE lastOpt

\* Release, deferred by whoever has borrowed.
ReleaseTransport(t) ==
  /\ tls' = [tls EXCEPT ![lent[t]] = NoRepo]
  /\ lent' = [lent EXCEPT ![t] = NoTransport]
  /\ UNCHANGED lastOpt

\* The transport a download finds: its own, or the one that was left last,
\* which may have been given back meanwhile.
Uses(t) == IF RepoOf[t] \in shared THEN lastOpt[RepoOf[t]] ELSE lent[t]

-----------------------------------------------------------------------------
\* A download goes through a transport that no other goes through and that has
\* the TLS configuration of its own client; one that is idle has none left of
\* whoever used it before.  It is what "All methods are thread safe" asks of
\* DownloadChart and DownloadIndex.
OwnTransport ==
  /\ \A t \in Thread : lent[t] # NoTransport =>
       /\ tls[Uses(t)] = RepoOf[t]
       /\ \A s \in Thread \ {t} : lent[s] # NoTransport => Uses(s) # Uses(t)
  /\ \A u \in Idle : tls[u] = NoRepo
=============================================================================
