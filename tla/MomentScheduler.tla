--------------------------- MODULE MomentScheduler ---------------------------
(***************************************************************************)
(* The moment engine's scheduler: a map in the process answers every call  *)
(* at once, and commands to Redis, which nobody waits for, keep a copy: a  *)
(* sorted set of the ids and a hash of their details.  The commands go out *)
(* on one connection in order; an update needs the answer to a read before *)
(* it sends its write, and other commands get in between.                  *)
(***************************************************************************)
EXTENDS Naturals, Sequences

CONSTANTS Moments,       \* the ids: a uuid for each moment, used once
          MaxWire        \* bound on the commands under way

ASSUME MomentAssumption == MaxWire \in Nat

VARIABLES
  used,        \* SUBSET Moments: ids the generator has given out
  local,       \* [Moments -> MomentStatus]: the map scheduled
  sorted,      \* SUBSET Moments: scheduler:moment
  details,     \* [Moments -> MomentStatus]: scheduler-details:moment
  wire,        \* Seq(Command): sent, not yet executed
  read,        \* SUBSET Moments: an update's read that found the item, answered
  doubtful,    \* history: SUBSET Moments, with a command that was lost
  cancelled    \* history: SUBSET Moments, cancelled by this process

momentVars == <<used, local, sorted, details, wire, read, doubtful, cancelled>>

MomentStatus == {"ABSENT", "SCHEDULED", "DELIVERED"}
Command == {"zadd", "hset", "zrem", "hdel", "hget", "hset_delivered"} \X Moments

MomentInit ==
  /\ used = {} /\ sorted = {} /\ read = {} /\ doubtful = {} /\ cancelled = {}
  /\ local = [m \in Moments |-> "ABSENT"]
  /\ details = [m \in Moments |-> "ABSENT"]
  /\ wire = << >>

Send(ops, m) ==
  /\ Len(wire) + Len(ops) =< MaxWire
  /\ wire' = wire \o [i \in 1 .. Len(ops) |-> <<ops[i], m>>]

\* materialize and schedule, with scheduleItem's two commands.
Schedule(m) ==
  /\ m \notin used
  /\ used' = used \cup {m}
  /\ local' = [local EXCEPT ![m] = "SCHEDULED"]
  /\ Send(<<"zadd", "hset">>, m)
  /\ UNCHANGED <<sorted, details, read, doubtful, cancelled>>

\* A mutant: the details stay behind.
RemoveItem_SortedOnly(m) == Send(<<"zrem">>, m)

RemoveItem(m) == Send(<<"zrem", "hdel">>, m)

\* cancel, whether the map still has the id or not.
Cancel(m) ==
  /\ m \in used
  /\ local' = [local EXCEPT ![m] = "ABSENT"]
  /\ cancelled' = cancelled \cup {m}
  /\ RemoveItem(m)
  /\ UNCHANGED <<used, sorted, details, read, doubtful>>

\* markDelivered, with the read of updateItem.
MarkDelivered(m) ==
  /\ local[m] # "ABSENT"
  /\ local' = [local EXCEPT ![m] = "DELIVERED"]
  /\ Send(<<"hget">>, m)
  /\ UNCHANGED <<used, sorted, details, read, doubtful, cancelled>>

\* getItem: an update goes on only if the item is there.
MarkRead(m) == read' = IF details[m] = "ABSENT" THEN read ELSE read \cup {m}

\* Redis executes the next command.
Executes ==
  /\ wire # << >>
  /\ wire' = Tail(wire)
  /\ LET op == Head(wire)[1]
         m == Head(wire)[2]
     IN  /\ sorted' = CASE op = "zadd" -> sorted \cup {m}
                        [] op = "zrem" -> sorted \ {m}
                        [] OTHER -> sorted
         /\ details' = CASE op = "hset" -> [details EXCEPT ![m] = "SCHEDULED"]
                         [] op = "hset_delivered" -> [details EXCEPT ![m] = "DELIVERED"]
                         [] op = "hdel" -> [details EXCEPT ![m] = "ABSENT"]
                         [] OTHER -> details
         /\ IF op = "hget" THEN MarkRead(m) ELSE UNCHANGED read
  /\ UNCHANGED <<used, local, doubtful, cancelled>>

\* A command fails; the error is logged, the local map is not told.
CommandFails ==
  /\ wire # << >>
  /\ wire' = Tail(wire)
  /\ doubtful' = doubtful \cup {Head(wire)[2]}
  /\ UNCHANGED <<used, local, sorted, details, read, cancelled>>

\* updateItem goes on with its write.
UpdateItem(m) ==
  /\ m \in read
  /\ read' = read \ {m}
  /\ Send(<<"hset_delivered">>, m)
  /\ UNCHANGED <<used, local, sorted, details, doubtful, cancelled>>

\* The process restarts: the map begins empty and nothing reads Redis back.
Restart ==
  /\ local' = [m \in Moments |-> "ABSENT"]
  /\ wire' = << >>
  /\ read' = {}
  /\ doubtful' = used
  /\ used # {}
  /\ UNCHANGED <<used, sorted, details, cancelled>>

MomentNext ==
  \/ \E m \in Moments : Schedule(m) \/ Cancel(m) \/ MarkDelivered(m) \/ UpdateItem(m)
  \/ Executes
  \/ CommandFails
  \/ Restart

MomentSpec == MomentInit /\ [][MomentNext]_momentVars

-----------------------------------------------------------------------------
MomentTypeOK ==
  /\ local \in [Moments -> MomentStatus] /\ details \in [Moments -> MomentStatus]
  /\ sorted \cup read \cup doubtful \cup cancelled \subseteq used
  /\ used \subseteq Moments
  /\ wire \in Seq(Command) /\ Len(wire) =< MaxWire

\* When nothing is under way, Redis has the moments of the map, each with its
\* status, unless a command was lost; what it has besides are details of moments
\* that were cancelled while an update was between its read and its write.
MirrorSettles ==
  wire = << >> /\ read = {} =>
    \A m \in Moments \ doubtful :
      /\ m \in sorted <=> local[m] # "ABSENT"
      /\ local[m] # "ABSENT" => details[m] = local[m]
      /\ local[m] = "ABSENT" => \/ details[m] = "ABSENT"
                                \/ details[m] = "DELIVERED" /\ m \in cancelled

=============================================================================
