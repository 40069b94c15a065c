------------------------------ MODULE Acceptor ------------------------------
(***************************************************************************)
(* fm::net::Acceptor (src/net/Acceptor.cpp): handleRead() on the thread of *)
(* the base loop, with the spare descriptor idle_fd_ that it gives up to   *)
(* turn a client away when the process is out of descriptors.              *)
(*                                                                         *)
(* Clients are counted: those that have come and those that were accepted, *)
(* turned away or gone.  Descriptors are counted too; free, a parameter,   *)
(* is how many the process may still open, and other threads of it open    *)
(* and close some.  The listening socket is level triggered.               *)
(*                                                                         *)
(* handleRead() tests errno after a LOG_ERROR, which may have changed it.  *)
(***************************************************************************)
EXTENDS Naturals

CONSTANTS
  MaxClients,  \* bound: clients that connect
  MaxOthers    \* bound: descriptors that other threads hold

VARIABLES
  arrived,    \* clients that have connected
  handled,    \* clients that accept() has returned, or that are gone
  spare,      \* idle_fd_ is open on /dev/null
  extra,      \* idle_fd_ holds an accepted connection
  apc,        \* where the branch for EMFILE is
  others,     \* descriptors that other threads hold
  logger      \* what LOG_ERROR reaches

\* The logger that was initialized; "none" without one, and at a log level below
\* kERROR, such as the default kINFO.
Logger == {"none", "StdLogger", "AsyncLogger"}

acceptorVars == <<arrived, handled, spare, extra, apc, others, logger>>

AcceptorInit ==
  /\ arrived = 0
  /\ handled = 0
  /\ spare = TRUE
  /\ extra = FALSE
  /\ apc = "idle"
  /\ others = 0
  /\ logger \in Logger

Waiting == arrived > handled

\* StdLogger::add() writes the line at once, and stringify() sets errno to 0;
\* AsyncLogger leaves both to its thread, and a line that is not logged is none.
ErrnoKept == logger # "StdLogger"

\* A client completes its handshake and is in the backlog.
Arrive ==
  /\ arrived < MaxClients
  /\ arrived' = arrived + 1
  /\ UNCHANGED <<handled, spare, extra, apc, others, logger>>

\* accept() returns ECONNABORTED or the like: nothing is done about it.
ClientGone ==
  /\ apc = "idle" /\ Waiting
  /\ handled' = handled + 1
  /\ UNCHANGED <<arrived, spare, extra, apc, others, logger>>

\* Nothing is done about EMFILE.
AcceptFails_Ignored(free) ==
  /\ apc = "idle" /\ Waiting
  /\ free = 0
  /\ UNCHANGED acceptorVars

\* accept() returns EMFILE.  If errno says so still: close(idle_fd_) ...
AcceptFails(free) ==
  /\ apc = "idle" /\ Waiting
  /\ free = 0
  /\ apc' = IF ErrnoKept THEN "accept" ELSE "idle"
  /\ spare' = (spare /\ ~ErrnoKept)
  /\ UNCHANGED <<arrived, handled, extra, others, logger>>

\* ... idle_fd_ = accept(), which fails if another thread was faster ...
AcceptExtra(free) ==
  /\ apc = "accept"
  /\ extra' = (free > 0 /\ Waiting)
  /\ handled' = IF free > 0 /\ Waiting THEN handled + 1 ELSE handled
  /\ apc' = "close"
  /\ UNCHANGED <<arrived, spare, others, logger>>

\* ... close(idle_fd_), or close(-1) ...
CloseExtra ==
  /\ apc = "close"
  /\ extra' = FALSE
  /\ apc' = "reopen"
  /\ UNCHANGED <<arrived, handled, spare, others, logger>>

\* ... and idle_fd_ = open("/dev/null").
Reopen(free) ==
  /\ apc = "reopen"
  /\ spare' = (free > 0)
  /\ apc' = "idle"
  /\ UNCHANGED <<arrived, handled, extra, others, logger>>

\* Another thread has taken the descriptor that handleRead() gave up, before its
\* accept() or before its open().
Overtaken == (apc = "close" /\ ~extra) \/ (apc = "idle" /\ ~spare)

\* Other threads open and close files.
Others(free) ==
  /\ \/ free > 0 /\ others < MaxOthers /\ others' = others + 1
     \/ others > 0 /\ others' = others - 1
  /\ UNCHANGED <<arrived, handled, spare, extra, apc, logger>>
=============================================================================
