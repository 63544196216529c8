---------------------------- MODULE SqliteStore ----------------------------
(***************************************************************************)
(* internal/storage/sqlite/sqlite.go: the Storage in one SQLite table.     *)
(* A row keeps the whole investigation as JSON in its data column and, for *)
(* ORDER BY, its StartedAt once more, cut down to whole seconds, in its    *)
(* started_at column.  Each statement is one SQLite transaction.           *)
(***************************************************************************)
EXTENDS Integers, Investigations, StableSort

CONSTANTS
    TicksPerSecond,   \* StartedAt's ticks in one second
    NoRow             \* an id the table does not hold
ASSUME TicksAssumption == TicksPerSecond \in Nat \ {0}

VARIABLE rows   \* id |-> its row, or NoRow

\* time.Time.Unix: the nanoseconds are dropped.
Unix(t) == t \div TicksPerSecond

\* json.Marshal fails on a hypothesis whose evidence holds +Inf, -Inf or NaN.
Marshals(inv) == inv.hypotheses \in Encodable

Row == [started_at : Nat, data : {inv \in Investigation : Marshals(inv)}]

ASSUME NoRowAssumption == NoRow \notin Row

\* Mutants of Save: started_at left out of DO UPDATE; an update without its
\* WHERE; a UNIQUE started_at whose conflicts replace the other row; the
\* marshalling error ignored.
SaveKeepsStartedAt(inv) ==
    /\ Marshals(inv)
    /\ rows' = [rows EXCEPT ![IdOf(inv)] =
                   [started_at |-> IF @ = NoRow THEN Unix(inv.startedAt) ELSE @.started_at,
                    data |-> inv]]
SaveEveryRow(inv) ==
    /\ Marshals(inv)
    /\ rows' = [id \in Id |->
                   IF id = IdOf(inv) \/ rows[id] # NoRow
                   THEN [started_at |-> Unix(inv.startedAt), data |-> inv]
                   ELSE NoRow]
SaveReplaces(inv) ==
    /\ Marshals(inv)
    /\ rows' = [id \in Id |->
                   IF id = IdOf(inv)
                   THEN [started_at |-> Unix(inv.startedAt), data |-> inv]
                   ELSE IF rows[id] = NoRow THEN NoRow
                   ELSE IF rows[id].started_at = Unix(inv.startedAt) THEN NoRow
                   ELSE rows[id]]
SaveUnchecked(inv) ==
    rows' = [rows EXCEPT ![IdOf(inv)] =
                [started_at |-> Unix(inv.startedAt), data |-> inv]]

\* INSERT ... ON CONFLICT(id) DO UPDATE: one row per id, every column replaced.
Save(inv) ==
    /\ Marshals(inv)
    /\ rows' = [rows EXCEPT ![IdOf(inv)] =
                   [started_at |-> Unix(inv.startedAt), data |-> inv]]

\* Save on an error path: the marshalling, the statement or the request's
\* context failed, and nothing was written.
SaveFails == UNCHANGED rows

Get(id) == IF rows[id] = NoRow THEN NotFound ELSE rows[id].data

\* SELECT data ... ORDER BY started_at DESC [LIMIT n].  SQL leaves the order
\* of rows with equal started_at open: the set of the listings it may return.
List(limit) ==
    LET present == {id \in Id : rows[id] # NoRow}
        n == Cardinality(present)
        orders == {o \in [1..n -> present] :
                      \A j, k \in 1..n :
                         j < k => /\ o[j] # o[k]
                                  /\ rows[o[j]].started_at >= rows[o[k]].started_at}
        shown == IF limit > 0 /\ limit < n THEN limit ELSE n
    IN  {[k \in 1..shown |-> rows[o[k]].data] : o \in orders}

Init == rows = [id \in Id |-> NoRow]

Next == \E inv \in Investigation : Save(inv)

Spec == Init /\ [][Next]_rows

-----------------------------------------------------------------------------
(* What is checked. *)

TypeOK == rows \in [Id -> Row \cup {NoRow}]

Answers == [id \in Id |-> Get(id)]

Contract == INSTANCE Storage WITH lookup <- Answers

\* The table keeps the promise of the Storage interface (Save, Get).
MeetsContract == Contract!Spec

\* Unlike the ring, the table never forgets an investigation, whatever is
\* saved after it: the only change to an id's answer is a save of that id.
ForgetsNothing ==
    [][\A id \in Id :
          Get(id) # NotFound => /\ Get(id)' # NotFound
                                /\ IdOf(Get(id)') = id]_rows

\* A limited listing leaves out no investigation that started a whole second
\* or more after one it shows, however often the rows were re-saved: the
\* started_at column never drifts from the StartedAt inside data.
ListsNewestToTheSecond ==
    \A limit \in 1..Cardinality(Id) : \A l \in List(limit) :
        \A id \in Id :
            \/ Get(id) = NotFound
            \/ \E k \in DOMAIN l : l[k] = Get(id)
            \/ \A k \in DOMAIN l : Unix(l[k].startedAt) >= Unix(Get(id).startedAt)
=============================================================================
