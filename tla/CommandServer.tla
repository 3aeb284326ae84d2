---------------------------- MODULE CommandServer ----------------------------
(***************************************************************************)
(* The TCP server: one thread that accepts a client, waits with select()   *)
(* for what it sends and executes each command before it looks again,      *)
(* while the terminal's thread executes commands of its own.               *)
(*                                                                         *)
(* Descriptors are numbers that the whole process shares: a new one gets   *)
(* the lowest that is free, and the recordings open and close theirs all   *)
(* the time.                                                               *)
(***************************************************************************)
EXTENDS ChannelWiring, FiniteSets

CONSTANTS
  Clients,
  Descriptors,  \* the numbers of the descriptors
  Client_Max    \* CLIENT_MAX

ASSUME CommandServerAssumption ==
  /\ Descriptors \subseteq Nat /\ Descriptors # {} /\ IsFiniteSet(Descriptors)
  /\ Client_Max \in Nat \ {0}
  /\ Clients \cap {"server", "file", "free"} = {}

VARIABLES
  fds,      \* of a descriptor: whose it is
  m_fds,    \* the descriptors the server watches
  m_fdMax,  \* the highest of them it looks at
  client_cnt,
  peer,     \* of a client: where its connection is
  unread,   \* the clients that have sent something that is not yet read
  hung,     \* the clients that have closed their end
  ready     \* what select() has returned and is still to be looked at

serverVars == <<fds, m_fds, m_fdMax, client_cnt, peer, unread, hung, ready>>
vars == <<serverVars, wiringVars>>

Listening(f) == fds[f] = "server"

(* Other threads have opened the descriptors below the server's by then. *)
Init ==
  /\ WiringInit
  /\ \E f \in Descriptors :
       /\ fds = [g \in Descriptors |->
            IF g < f THEN "file" ELSE IF g = f THEN "server" ELSE "free"]
       /\ m_fds = {f} /\ m_fdMax = f
  /\ client_cnt = 0 /\ peer = [c \in Clients |-> "away"]
  /\ unread = {} /\ hung = {} /\ ready = {}

-----------------------------------------------------------------------------
(* The clients and the other threads *)

Dials(c) ==
  /\ pass = "running" /\ "tcp" \in plan.threads
  /\ peer[c] = "away" /\ peer' = [peer EXCEPT ![c] = "waiting"]
  /\ UNCHANGED <<fds, m_fds, m_fdMax, client_cnt, unread, hung, ready, wiringVars>>

Writes(c) ==
  /\ peer[c] \in {"waiting", "accepted"} /\ c \notin hung \cup unread
  /\ unread' = unread \cup {c}
  /\ UNCHANGED <<fds, m_fds, m_fdMax, client_cnt, peer, hung, ready, wiringVars>>

HangsUp(c) ==
  /\ peer[c] \in {"waiting", "accepted"} /\ c \notin hung
  /\ hung' = hung \cup {c}
  /\ UNCHANGED <<fds, m_fds, m_fdMax, client_cnt, peer, unread, ready, wiringVars>>

LowestFree(f) == fds[f] = "free" /\ \A g \in Descriptors : fds[g] = "free" => f <= g

OpensFile(f) ==
  /\ "tcp" \in plan.threads /\ LowestFree(f)
  /\ \E g \in Descriptors \ {f} : fds[g] = "free"
  /\ fds' = [fds EXCEPT ![f] = "file"]
  /\ UNCHANGED <<m_fds, m_fdMax, client_cnt, peer, unread, hung, ready, wiringVars>>

ClosesFile(f) ==
  /\ "tcp" \in plan.threads /\ fds[f] = "file"
  /\ fds' = [fds EXCEPT ![f] = "free"]
  /\ UNCHANGED <<m_fds, m_fdMax, client_cnt, peer, unread, hung, ready, wiringVars>>

Environment ==
  \/ \E c \in Clients : Dials(c) \/ Writes(c) \/ HangsUp(c)
  \/ \E f \in Descriptors : OpensFile(f) \/ ClosesFile(f)

-----------------------------------------------------------------------------
(* waitingConnect() *)

Readable(f) ==
  IF Listening(f) THEN \E c \in Clients : peer[c] = "waiting"
  ELSE fds[f] \in hung \cup unread

(* select() fails for good when a descriptor it is given is not open. *)
Select ==
  LET asked == {f \in m_fds : f <= m_fdMax} IN
  /\ pass = "running" /\ ready = {} /\ ~Busy("tcp")
  /\ \A f \in asked : fds[f] # "free"
  /\ ready' = {f \in asked : Readable(f)} /\ ready' # {}
  /\ UNCHANGED <<fds, m_fds, m_fdMax, client_cnt, peer, unread, hung, wiringVars>>

(* The loop comes to a descriptor that select() returned.  The highest goes *)
(* down only when it is closed itself, as the last of its round.           *)
LooksAt(f) ==
  /\ f \in ready /\ f <= m_fdMax /\ (\A g \in ready : f <= g) /\ ~Busy("tcp")
  /\ ready' = ready \ {f}

(* A client more than there may be is accepted and closed at once. *)
Accept(f) ==
  \E c \in Clients, g \in Descriptors :
    /\ LooksAt(f) /\ Listening(f) /\ peer[c] = "waiting" /\ LowestFree(g)
    /\ IF client_cnt >= Client_Max
       THEN /\ peer' = [peer EXCEPT ![c] = "away"]
            /\ unread' = unread \ {c} /\ hung' = hung \ {c}
            /\ UNCHANGED <<fds, m_fds, m_fdMax, client_cnt>>
       ELSE /\ peer' = [peer EXCEPT ![c] = "accepted"]
            /\ fds' = [fds EXCEPT ![g] = c]
            /\ m_fds' = m_fds \cup {g}
            /\ m_fdMax' = IF g > m_fdMax THEN g ELSE m_fdMax
            /\ client_cnt' = client_cnt + 1
            /\ UNCHANGED <<unread, hung>>
    /\ UNCHANGED wiringVars

(* One command is taken from what has arrived; the rest of it is lost. *)
Receive(f) ==
  \E op \in plan.operations :
    /\ LooksAt(f) /\ fds[f] \in unread
    /\ unread' = unread \ {fds[f]}
    /\ Begin("tcp", op)
    /\ UNCHANGED <<fds, m_fds, m_fdMax, client_cnt, peer, hung>>

(* What was received is no command, or one that is refused. *)
ReceiveOther(f) ==
  /\ LooksAt(f) /\ fds[f] \in unread
  /\ unread' = unread \ {fds[f]}
  /\ UNCHANGED <<fds, m_fds, m_fdMax, client_cnt, peer, hung, wiringVars>>

(* slip: the highest descriptor goes down whichever was closed *)
LoweredAlways(f) == m_fdMax - 1

Lowered(f) == IF f = m_fdMax THEN m_fdMax - 1 ELSE m_fdMax
Unwatched(f) == m_fds \ {f}

(* Nothing to read: the client is gone. *)
CloseClient(f) ==
  LET c == fds[f] IN
  /\ LooksAt(f) /\ c \in hung /\ c \notin unread
  /\ m_fds' = Unwatched(f) /\ m_fdMax' = Lowered(f)
  /\ client_cnt' = IF client_cnt > 0 THEN client_cnt - 1 ELSE 0
  /\ fds' = [fds EXCEPT ![f] = "free"]
  /\ peer' = [peer EXCEPT ![c] = "away"] /\ hung' = hung \ {c}
  /\ UNCHANGED <<unread, wiringVars>>

Serve ==
  \/ Select
  \/ \E f \in Descriptors : Accept(f) \/ Receive(f) \/ ReceiveOther(f) \/ CloseClient(f)

Commands ==
  \/ StartUp
  \/ \E op \in plan.operations : Begin("terminal", op)
  \/ \E t \in Threads : Execute(t)

Next == Environment \/ Serve \/ (Commands /\ UNCHANGED serverVars)

Spec == Init /\ [][Next]_vars

-----------------------------------------------------------------------------
(* Properties *)

(* Whatever descriptors come and go, the server watches the socket it      *)
(* listens to and every client it has accepted, and nothing else; all of   *)
(* them are within reach of select(); and its count is the number of these *)
(* clients, so that a place becomes free when one has gone.                *)
AllHeard ==
  /\ m_fds = {f \in Descriptors : Listening(f) \/ fds[f] \in Clients}
  /\ \A f \in m_fds : f <= m_fdMax
  /\ client_cnt = Cardinality({f \in Descriptors : fds[f] \in Clients})
  /\ client_cnt <= Client_Max
  /\ \A c \in Clients : peer[c] = "accepted" <=> \E f \in m_fds : fds[f] = c
=============================================================================
