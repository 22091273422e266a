------------------------- MODULE ControlPlaneProofs -------------------------
(***************************************************************************)
(* VerdictIsOwn and IdsStayValid hold in every behaviour of ControlPlane.  *)
(* Every step but a crash is a step of one thread t (or of the reaper): it *)
(* changes the tables and the connection only while t has the lock, so     *)
(* what any other thread knows about them stays true.  From the same       *)
(* invariant, the handlers implement AtomicStore: each step is a call, the *)
(* one moment at which an operation takes effect, or not seen by the       *)
(* abstract store at all.                                                  *)
(***************************************************************************)
EXTENDS ControlPlane, TLAPS

connection == <<rows, lock, changes, last_insert_id>>

\* What a step of thread t may do to the connection.
OwnStep(t) ==
    \/ UNCHANGED connection
    \/ lock = Null /\ UNCHANGED <<rows, changes, last_insert_id>>
    \/ /\ lock # Null /\ lock[1] = t
       /\ rows' = rows \/ \E r \in Row : rows' = Append(rows, r)

\* A step that appends at most one row keeps the rows there are.
LEMMA RowsGrow ==
    ASSUME TypeOK, rows' = rows \/ \E r \in Row : rows' = Append(rows, r)
    PROVE  \A i \in 1..Len(rows) : i \in 1..Len(rows') /\ rows'[i] = rows[i]
BY DEF TypeOK

\* A step of t that leaves the locals of u alone keeps what u knows.
LEMMA OthersKeep ==
    ASSUME StoreInv, NEW t \in Threads, NEW u \in Threads, u # t,
           pc'[u] = pc[u], req'[u] = req[u], OwnStep(t)
    PROVE  ThreadInv(u)'
<1>. USE ControlPlaneAssumption DEF StoreInv
<1>0. TypeOK /\ ThreadInv(u)
  OBVIOUS
<1>1. CASE UNCHANGED connection
  BY <1>0, <1>1 DEF connection, ThreadInv, LockInv, HandlerInv, ConnectionInv
<1>2. CASE lock = Null /\ UNCHANGED <<rows, changes, last_insert_id>>
  <2>1. pc[u] # "changes" /\ pc[u] # "rowid"
    BY <1>0, <1>2 DEF ThreadInv, LockInv, Statements
  <2>. QED
    BY <1>0, <1>2, <2>1 DEF ThreadInv, LockInv, HandlerInv, ConnectionInv
<1>3. CASE /\ lock # Null /\ lock[1] = t
           /\ rows' = rows \/ \E r \in Row : rows' = Append(rows, r)
  <2>1. pc[u] # "changes" /\ pc[u] # "rowid"
    BY <1>0, <1>3 DEF ThreadInv, LockInv
  <2>2. \A i \in 1..Len(rows) : i \in 1..Len(rows') /\ rows'[i] = rows[i]
    BY <1>0, <1>3, RowsGrow
  <2>. QED
    BY <1>0, <2>1, <2>2 DEF ThreadInv, LockInv, HandlerInv, ConnectionInv
<1>. QED
  BY <1>1, <1>2, <1>3 DEF OwnStep

\* A step that appends to the rows or leaves them keeps the answers valid.
LEMMA AnswersKeep ==
    ASSUME TypeOK, IdsStayValid, answered' = answered,
           rows' = rows \/ \E r \in Row : rows' = Append(rows, r)
    PROVE  IdsStayValid'
BY RowsGrow DEF IdsStayValid

\* A step of thread t preserves the invariant if it preserves types, does no
\* more to the connection than t may, and ends with t knowing what it must.
LEMMA HandlerStep ==
    ASSUME StoreInv, NEW t \in Threads, NEW to, NEW l, Move(t, to, l), OwnStep(t),
           answered' = answered, TypeOK', ThreadInv(t)'
    PROVE  StoreInv'
<1>1. rows' = rows \/ \E r \in Row : rows' = Append(rows, r)
  BY DEF OwnStep, connection
<1>2. IdsStayValid'
  BY <1>1, AnswersKeep DEF StoreInv
<1>3. ASSUME NEW u \in Threads, u # t PROVE ThreadInv(u)'
  BY <1>3, OthersKeep DEF Move, StoreInv, TypeOK
<1>. QED
  BY <1>2, <1>3 DEF StoreInv

\* A request arrives.
LEMMA BeginInv ==
    ASSUME StoreInv, NEW t \in Threads, NEW kind \in Kinds,
           NEW to \in (Statements \cup {"reply"}) \ {"insert"},
           NEW name \in Names \cup {Null}, NEW deployed \in Specs \cup {Null}, NEW id \in Nat,
           Begin(t, kind, to, name, deployed, id),
           kind = "deploy" => to = "upsert" /\ deployed \in Specs /\ deployed.name = name,
           kind \in {"get", "invoke"} => to = "select",
           kind = "delete" => to = "delete",
           kind = "lookup" => to = "lookup" /\ id \in 1..MaxRequests,
           kind = "refused" => to = "reply",
           kind \notin {"lookup", "refused"} => name \in Names,
           kind = "invoke" => id = 0
    PROVE  StoreInv'
<1>. DEFINE l == [kind |-> kind, name |-> name, input |-> requests + 1,
                  deployed |-> deployed, spec |-> Null, removed |-> FALSE,
                  deleted |-> FALSE, id |-> id, found |-> Null, attempt |-> 1,
                  container |-> Null, cold_start |-> FALSE, status |-> "none"]
<1>1. /\ Move(t, to, l) /\ requests < MaxRequests /\ requests' = requests + 1
      /\ UNCHANGED <<db, pool, answered>>
  BY DEF Begin
<1>2. requests + 1 \in 1..MaxRequests
  BY <1>1, ControlPlaneAssumption DEF StoreInv, TypeOK
<1>3. l \in Request /\ to \in Locations
  BY <1>2 DEF Request, Statuses, Locations
<1>4. TypeOK'
  BY <1>1, <1>2, <1>3 DEF Move, StoreInv, TypeOK, db, pool
<1>5. pc'[t] = to /\ req'[t] = l
  BY <1>1 DEF Move, StoreInv, TypeOK
<1>6. ThreadInv(t)'
  <2>1. LockInv(t)' /\ to # "changes" /\ to # "rowid" /\ (to = "reply" => kind = "refused")
    BY <1>5 DEF LockInv, Statements, Kinds
  <2>2. /\ l # Null /\ l.kind = kind /\ l.name = name /\ l.deployed = deployed
        /\ l.id = id /\ l.removed = l.deleted
    BY <1>3, ControlPlaneAssumption
  <2>3. HandlerInv(t)'
    <3>. HIDE DEF l
    <3>. QED
      BY <1>5, <2>1, <2>2 DEF HandlerInv, Statements, Kinds
  <2>4. ConnectionInv(t)'
    <3>. HIDE DEF l
    <3>. QED
      BY <1>5, <2>1, <2>2 DEF ConnectionInv
  <2>. QED
    BY <2>1, <2>3, <2>4 DEF ThreadInv
<1>7. OwnStep(t)
  BY <1>1 DEF OwnStep, connection, db
<1>. QED
  BY <1>1, <1>4, <1>6, <1>7, HandlerStep

\* The kinds of request.
LEMMA ArriveInv ==
    ASSUME StoreInv, NEW t \in Threads, Arrive(t)
    PROVE  StoreInv'
<1>1. ASSUME NEW s \in Specs, PostFunctions(t, s) PROVE StoreInv'
  BY <1>1, BeginInv, ControlPlaneAssumption DEF PostFunctions, Kinds, Statements
<1>2. ASSUME NEW f \in Names, GetFunction(t, f) PROVE StoreInv'
  BY <1>2, BeginInv DEF GetFunction, Kinds, Statements
<1>3. ASSUME NEW f \in Names, DeleteFunction(t, f) PROVE StoreInv'
  BY <1>3, BeginInv DEF DeleteFunction, Kinds, Statements
<1>4. ASSUME NEW f \in Names, InvokeFunction(t, f) PROVE StoreInv'
  BY <1>4, BeginInv DEF InvokeFunction, Kinds, Statements
<1>5. ASSUME NEW id \in 1..MaxRequests, GetInvocation(t, id) PROVE StoreInv'
  BY <1>5, BeginInv, ControlPlaneAssumption DEF GetInvocation, Kinds, Statements
<1>6. ASSUME Refuse(t) PROVE StoreInv'
  BY <1>6, BeginInv DEF Refuse, Kinds
<1>. QED
  BY <1>1, <1>2, <1>3, <1>4, <1>5, <1>6 DEF Arrive

\* A statement's constructor takes the free lock.
LEMMA PrepareInv ==
    ASSUME StoreInv, NEW t \in Threads, Prepare(t)
    PROVE  StoreInv'
<1>1. TypeOK'
  BY DEF Prepare, StoreInv, TypeOK, pool
<1>2. ASSUME NEW u \in Threads PROVE ThreadInv(u)'
  BY <1>2, ControlPlaneAssumption
  DEF Prepare, StoreInv, ThreadInv, LockInv, HandlerInv, ConnectionInv, Statements
<1>3. IdsStayValid'
  BY DEF Prepare, StoreInv, IdsStayValid
<1>. QED
  BY <1>1, <1>2, <1>3 DEF StoreInv

\* register_function's upsert.
LEMMA UpsertInv ==
    ASSUME StoreInv, NEW t \in Threads, Upsert(t)
    PROVE  StoreInv'
<1>1. /\ TypeOK /\ ThreadInv(t) /\ pc[t] = "upsert" /\ lock = <<t, "upsert">>
      /\ req[t] \in Request /\ req[t].deployed \in Specs
  <2>1. TypeOK /\ ThreadInv(t) /\ pc[t] = "upsert" /\ lock = <<t, "upsert">> /\ req[t] \in Request
    BY DEF Upsert, Holds, StoreInv, TypeOK, ThreadInv, HandlerInv
  <2>2. req[t].kind \in Kinds
    BY <2>1 DEF Request
  <2>. QED
    BY <2>1, <2>2 DEF Kinds, ThreadInv, HandlerInv
<1>2. TypeOK'
  BY <1>1, ControlPlaneAssumption DEF Upsert, Move, TypeOK, Locations, Statements, pool
<1>3. pc'[t] = "select" /\ req'[t] = req[t]
  BY <1>1 DEF Upsert, Move, TypeOK
<1>4. ThreadInv(t)'
  BY <1>1, <1>3 DEF ThreadInv, LockInv, HandlerInv, ConnectionInv
<1>5. OwnStep(t)
  BY <1>1, ControlPlaneAssumption DEF OwnStep, Upsert, Statements
<1>. QED
  BY <1>2, <1>4, <1>5, HandlerStep DEF Upsert

\* FunctionRegistry::get.
LEMMA SelectInv ==
    ASSUME StoreInv, NEW t \in Threads, Select(t)
    PROVE  StoreInv'
<1>. DEFINE to == IF req[t].kind = "invoke" /\ Registered(req[t].name) THEN "invoke" ELSE "reply"
            l  == [req[t] EXCEPT !.spec = functions[req[t].name]]
<1>1. /\ TypeOK /\ ThreadInv(t) /\ pc[t] = "select" /\ lock = <<t, "select">>
      /\ req[t] \in Request /\ req[t].kind \notin {"lookup", "refused"} /\ req[t].name \in Names
  BY DEF Select, Holds, StoreInv, TypeOK, ThreadInv, HandlerInv
<1>2. functions[req[t].name] \in Specs \cup {Null}
  BY <1>1 DEF TypeOK
<1>3. l \in Request /\ to \in {"invoke", "reply"} /\ to \in Locations
  BY <1>1, <1>2 DEF Request, Locations
<1>4. Move(t, to, l)
  BY DEF Select
<1>5. pc'[t] = to /\ req'[t] = l
  BY <1>1, <1>4 DEF Move, TypeOK
<1>6. /\ l.kind = req[t].kind /\ l.name = req[t].name /\ l.id = req[t].id
      /\ l.removed = req[t].removed /\ l.deleted = req[t].deleted
      /\ l.deployed = req[t].deployed
      /\ to = "invoke" => l.spec \in Specs /\ l.kind = "invoke"
  BY <1>1, <1>2 DEF Request, Registered
<1>7. TypeOK'
  BY <1>1, <1>3, <1>4 DEF Select, Move, TypeOK, pool
<1>8. ThreadInv(t)'
  <2>. HIDE DEF to, l
  <2>1. l # Null
    BY <1>3, ControlPlaneAssumption
  <2>. QED
    BY <1>1, <1>3, <1>5, <1>6, <2>1 DEF ThreadInv, LockInv, HandlerInv, ConnectionInv
<1>9. OwnStep(t)
  BY <1>1, ControlPlaneAssumption DEF OwnStep, Select, Statements
<1>. QED
  BY <1>4, <1>7, <1>8, <1>9, HandlerStep DEF Select

\* FunctionRegistry::remove, the statement: its row count is the connection's.
LEMMA DeleteInv ==
    ASSUME StoreInv, NEW t \in Threads, Delete(t)
    PROVE  StoreInv'
<1>. DEFINE f == req[t].name
            l == [req[t] EXCEPT !.deleted = Registered(f)]
<1>1. /\ TypeOK /\ ThreadInv(t) /\ pc[t] = "delete" /\ lock = <<t, "delete">>
      /\ req[t] \in Request /\ req[t].kind \notin {"lookup", "refused"} /\ f \in Names
  BY DEF Delete, Holds, StoreInv, TypeOK, ThreadInv, HandlerInv
<1>2. Registered(f) \in BOOLEAN /\ l \in Request /\ "changes" \in Locations
  BY <1>1 DEF Request, Locations, Registered
<1>3. Move(t, "changes", l)
  BY DEF Delete
<1>4. pc'[t] = "changes" /\ req'[t] = l
  BY <1>1, <1>3 DEF Move, TypeOK
<1>5. /\ l.kind = req[t].kind /\ l.name = req[t].name /\ l.id = req[t].id
      /\ l.deleted = Registered(f)
  BY <1>1 DEF Request
<1>6. TypeOK'
  BY <1>1, <1>2, <1>3 DEF Delete, Move, TypeOK, pool
<1>7. ThreadInv(t)'
  <2>1. l.deleted = (changes' > 0)
    BY <1>2, <1>5 DEF Delete
  <2>2. l # Null /\ lock' = <<t, "delete">>
    BY <1>1, <1>2, ControlPlaneAssumption DEF Delete
  <2>. HIDE DEF l
  <2>. QED
    BY <1>1, <1>4, <1>5, <2>1, <2>2 DEF ThreadInv, LockInv, HandlerInv, ConnectionInv
<1>8. OwnStep(t)
  BY <1>1, ControlPlaneAssumption DEF OwnStep, Delete, Statements
<1>. QED
  BY <1>3, <1>6, <1>7, <1>8, HandlerStep DEF Delete

\* changes(), read while the lock is held, is the count of that statement.
LEMMA ReadChangesInv ==
    ASSUME StoreInv, NEW t \in Threads, ReadChanges(t)
    PROVE  StoreInv'
<1>. DEFINE to == IF changes > 0 THEN "terminate" ELSE "reply"
            l  == [req[t] EXCEPT !.removed = changes > 0]
<1>1. /\ TypeOK /\ ThreadInv(t) /\ pc[t] = "changes" /\ lock = <<t, "delete">>
      /\ req[t] \in Request /\ req[t].kind \notin {"lookup", "refused"}
      /\ req[t].kind = "invoke" => req[t].id = 0
      /\ req[t].deleted = (changes > 0)
  BY DEF ReadChanges, StoreInv, TypeOK, ThreadInv, LockInv, HandlerInv, ConnectionInv
<1>2. l \in Request /\ to \in {"terminate", "reply"} /\ to \in Locations
  BY <1>1 DEF Request, Locations
<1>3. Move(t, to, l)
  BY DEF ReadChanges
<1>4. pc'[t] = to /\ req'[t] = l
  BY <1>1, <1>3 DEF Move, TypeOK
<1>5. /\ l.kind = req[t].kind /\ l.name = req[t].name /\ l.id = req[t].id
      /\ l.removed = (changes > 0) /\ l.deleted = req[t].deleted
  BY <1>1 DEF Request
<1>6. TypeOK'
  BY <1>1, <1>2, <1>3 DEF ReadChanges, Move, TypeOK, pool
<1>7. ThreadInv(t)'
  <2>1. l # Null /\ l.removed = l.deleted
    BY <1>1, <1>2, <1>5, ControlPlaneAssumption
  <2>. HIDE DEF l, to
  <2>. QED
    BY <1>1, <1>2, <1>4, <1>5, <2>1 DEF ThreadInv, LockInv, HandlerInv, ConnectionInv
<1>8. OwnStep(t)
  BY <1>1, ControlPlaneAssumption DEF OwnStep, ReadChanges, Statements
<1>. QED
  BY <1>3, <1>6, <1>7, <1>8, HandlerStep DEF ReadChanges

\* InvocationStore::record, the statement: its row id is the connection's.
LEMMA InsertInv ==
    ASSUME StoreInv, NEW t \in Threads, Insert(t)
    PROVE  StoreInv'
<1>. DEFINE r == [function_name |-> req[t].name, input |-> req[t].input,
                  status |-> req[t].status, cold_start |-> req[t].cold_start]
<1>1. /\ TypeOK /\ ThreadInv(t) /\ pc[t] = "insert" /\ lock = <<t, "insert">>
      /\ req[t] \in Request /\ req[t].kind \notin {"lookup", "refused"} /\ req[t].name \in Names
      /\ req[t].status # "none"
  BY DEF Insert, NewRow, Holds, StoreInv, TypeOK, ThreadInv, HandlerInv
<1>2. r \in Row /\ r.input = req[t].input
  BY <1>1 DEF Request, Row
<1>3. /\ Move(t, "rowid", req[t]) /\ rows' = Append(rows, r)
      /\ last_insert_id' = Len(rows) + 1 /\ lock' = lock /\ changes' = 1
      /\ answered' = answered
  BY DEF Insert, NewRow
<1>4. /\ rows' \in Seq(Row) /\ last_insert_id' \in 1..Len(rows') /\ last_insert_id' \in Nat
      /\ rows'[last_insert_id'] = r
  BY <1>1, <1>2, <1>3 DEF TypeOK
<1>5. pc'[t] = "rowid" /\ req'[t] = req[t]
  BY <1>1, <1>3 DEF Move, TypeOK
<1>6. TypeOK'
  BY <1>1, <1>3, <1>4 DEF Insert, NewRow, Move, TypeOK, Locations, pool
<1>7. ThreadInv(t)'
  <2>. HIDE DEF r
  <2>. QED
    BY <1>1, <1>2, <1>3, <1>4, <1>5 DEF ThreadInv, LockInv, HandlerInv, ConnectionInv
<1>8. OwnStep(t)
  BY <1>1, <1>2, <1>3, ControlPlaneAssumption DEF OwnStep, Statements
<1>. QED
  BY <1>3, <1>6, <1>7, <1>8, HandlerStep

\* last_insert_id(), read while the lock is held, is the id of that row.
LEMMA ReadRowIdInv ==
    ASSUME StoreInv, NEW t \in Threads, ReadRowId(t)
    PROVE  StoreInv'
<1>. DEFINE l == [req[t] EXCEPT !.id = last_insert_id]
<1>1. /\ TypeOK /\ ThreadInv(t) /\ pc[t] = "rowid" /\ lock = <<t, "insert">>
      /\ req[t] \in Request /\ last_insert_id \in Nat
  BY DEF ReadRowId, StoreInv, TypeOK, ThreadInv, LockInv, HandlerInv
<1>2. l \in Request
  BY <1>1 DEF Request
<1>3. Move(t, "reply", l)
  BY DEF ReadRowId
<1>4. pc'[t] = "reply" /\ req'[t] = l
  BY <1>1, <1>3 DEF Move, TypeOK
<1>5. /\ l.kind = req[t].kind /\ l.name = req[t].name /\ l.id = last_insert_id
      /\ l.removed = req[t].removed /\ l.deleted = req[t].deleted /\ l.input = req[t].input
  BY <1>1 DEF Request
<1>6. TypeOK'
  BY <1>1, <1>2, <1>3 DEF ReadRowId, Move, TypeOK, Locations, pool
<1>7. ThreadInv(t)'
  <2>1. l # Null /\ rows' = rows
    BY <1>2, ControlPlaneAssumption DEF ReadRowId
  <2>. HIDE DEF l
  <2>. QED
    BY <1>1, <1>4, <1>5, <2>1 DEF ThreadInv, LockInv, HandlerInv, ConnectionInv
<1>8. OwnStep(t)
  BY <1>1, ControlPlaneAssumption DEF OwnStep, ReadRowId, Statements
<1>. QED
  BY <1>3, <1>6, <1>7, <1>8, HandlerStep DEF ReadRowId

\* InvocationStore::get.
LEMMA LookupInv ==
    ASSUME StoreInv, NEW t \in Threads, Lookup(t)
    PROVE  StoreInv'
<1>. DEFINE found == IF req[t].id \in 1..Len(rows) THEN rows[req[t].id] ELSE Null
            l == [req[t] EXCEPT !.found = found]
<1>1. /\ TypeOK /\ ThreadInv(t) /\ pc[t] = "lookup" /\ lock = <<t, "lookup">>
      /\ req[t] \in Request /\ req[t].kind = "lookup"
  <2>1. TypeOK /\ ThreadInv(t) /\ pc[t] = "lookup" /\ lock = <<t, "lookup">> /\ req[t] \in Request
    BY DEF Lookup, Holds, StoreInv, TypeOK, ThreadInv, HandlerInv
  <2>2. req[t].kind \in Kinds
    BY <2>1 DEF Request
  <2>. QED
    BY <2>1, <2>2 DEF Kinds, ThreadInv, HandlerInv
<1>2. found \in Row \cup {Null}
  BY <1>1 DEF TypeOK
<1>3. l \in Request
  BY <1>1, <1>2 DEF Request
<1>4. Move(t, "reply", l)
  BY DEF Lookup
<1>5. pc'[t] = "reply" /\ req'[t] = l
  BY <1>1, <1>4 DEF Move, TypeOK
<1>6. /\ l.kind = req[t].kind /\ l.id = req[t].id
      /\ l.removed = req[t].removed /\ l.deleted = req[t].deleted
  BY <1>1 DEF Request
<1>7. TypeOK'
  BY <1>1, <1>3, <1>4 DEF Lookup, Move, TypeOK, Locations, pool
<1>8. ThreadInv(t)'
  <2>1. l # Null
    BY <1>3, ControlPlaneAssumption
  <2>. HIDE DEF l
  <2>. QED
    BY <1>1, <1>5, <1>6, <2>1 DEF ThreadInv, LockInv, HandlerInv, ConnectionInv
<1>9. OwnStep(t)
  BY <1>1, ControlPlaneAssumption DEF OwnStep, Lookup, Statements
<1>. QED
  BY <1>4, <1>7, <1>8, <1>9, HandlerStep DEF Lookup

\* The locals that a call of the runtime manager leaves alone.
SameRequest(t, l) ==
    /\ l \in Request
    /\ l.kind = req[t].kind /\ l.name = req[t].name
    /\ l.id = req[t].id /\ l.spec = req[t].spec
    /\ l.removed = req[t].removed /\ l.deleted = req[t].deleted

\* A call of the runtime manager moves from one of its locations to another,
\* or to record's statement with a status, and does not touch the database.
ManagerMoves(t) ==
    /\ pc[t] \in {"invoke", "serve"}
    /\ \E to \in {"invoke", "serve", "insert"}, l \in Request :
        /\ Move(t, to, l)
        /\ SameRequest(t, l)
        /\ to = "insert" => l.status # "none"
    /\ UNCHANGED <<db, requests, answered>>
    /\ lease' \in [Names -> ContainerIds \cup {Null}]
    /\ spent' \in SUBSET ContainerIds

\* A step within a call of the manager.
LEMMA ManagerStep ==
    ASSUME StoreInv, NEW t \in Threads, ManagerMoves(t)
    PROVE  StoreInv'
<1>0. PICK to \in {"invoke", "serve", "insert"}, l \in Request :
        Move(t, to, l) /\ SameRequest(t, l) /\ (to = "insert" => l.status # "none")
  BY DEF ManagerMoves
<1>1. /\ TypeOK /\ ThreadInv(t) /\ to \in Locations /\ pc[t] \in {"invoke", "serve"}
      /\ UNCHANGED <<db, requests, answered>>
  BY DEF StoreInv, Locations, Statements, ManagerMoves
<1>2. pc'[t] = to /\ req'[t] = l
  BY <1>0, <1>1 DEF Move, TypeOK
<1>3. TypeOK'
  BY <1>0, <1>1 DEF Move, TypeOK, db, ManagerMoves
<1>4. ThreadInv(t)'
  <2>1. l # Null
    BY ControlPlaneAssumption
  <2>2. req[t].kind = "invoke"
    <3>1. req[t].kind \in Kinds
      BY <1>0 DEF Request, SameRequest
    <3>. QED
      BY <1>1, <3>1 DEF Kinds, ThreadInv, HandlerInv
  <2>. QED
    BY <1>0, <1>1, <1>2, <2>1, <2>2 DEF ThreadInv, LockInv, HandlerInv, ConnectionInv, SameRequest
<1>5. OwnStep(t)
  BY <1>1 DEF OwnStep, connection, db
<1>. QED
  BY <1>0, <1>1, <1>3, <1>4, <1>5, HandlerStep

\* How a call of the manager is shown to be one.
LEMMA ManagerMove ==
    ASSUME NEW t \in Threads, pc[t] \in {"invoke", "serve"},
           NEW to \in {"invoke", "serve", "insert"}, NEW l, Move(t, to, l), SameRequest(t, l),
           to = "insert" => l.status # "none",
           UNCHANGED <<db, requests, answered>>,
           lease' \in [Names -> ContainerIds \cup {Null}], spent' \in SUBSET ContainerIds
    PROVE  ManagerMoves(t)
BY DEF ManagerMoves, SameRequest

\* What holds at every call of the manager.
LEMMA ManagerCall ==
    ASSUME StoreInv, NEW t \in Threads, pc[t] \in {"invoke", "serve"}
    PROVE  /\ TypeOK /\ req[t] \in Request
           /\ req[t].name \in Names /\ req[t].spec \in Specs
BY DEF StoreInv, TypeOK, ThreadInv, HandlerInv

\* A cold start that succeeds.
LEMMA InvokeColdMoves ==
    ASSUME StoreInv, NEW t \in Threads, InvokeCold(t)
    PROVE  ManagerMoves(t)
<1>1. /\ pc[t] = "invoke" /\ TypeOK /\ req[t] \in Request
      /\ req[t].name \in Names /\ req[t].spec \in Specs
  BY ManagerCall DEF InvokeCold
<1>2. PICK c \in ContainerIds :
        /\ Pool!Grant(req[t].name, c)
        /\ Move(t, "serve", [req[t] EXCEPT !.container = c, !.cold_start = TRUE])
  BY DEF InvokeCold
<1>3. SameRequest(t, [req[t] EXCEPT !.container = c, !.cold_start = TRUE])
  BY <1>1 DEF SameRequest, Request
<1>4. lease' \in [Names -> ContainerIds \cup {Null}] /\ spent' \in SUBSET ContainerIds
  BY <1>1, <1>2 DEF TypeOK, Pool!Grant
<1>. QED
  BY <1>1, <1>2, <1>3, <1>4, ManagerMove DEF InvokeCold

\* A cold start that fails.
LEMMA StartFailsMoves ==
    ASSUME StoreInv, NEW t \in Threads, StartFails(t)
    PROVE  ManagerMoves(t)
<1>. DEFINE l == [req[t] EXCEPT !.status = "infra_error"]
<1>1. pc[t] = "invoke" /\ TypeOK /\ req[t] \in Request
  BY ManagerCall DEF StartFails
<1>2. SameRequest(t, l) /\ l.status # "none"
  BY <1>1 DEF SameRequest, Request, Statuses
<1>3. lease' = lease /\ spent' \in SUBSET ContainerIds
  BY <1>1 DEF StartFails, TypeOK, Pool!Waste
<1>. QED
  BY <1>1, <1>2, <1>3, ManagerMove DEF StartFails, TypeOK

\* A warm start.
LEMMA InvokeWarmMoves ==
    ASSUME StoreInv, NEW t \in Threads, InvokeWarm(t)
    PROVE  ManagerMoves(t)
<1>. DEFINE l == [req[t] EXCEPT !.container = lease[req[t].name], !.cold_start = FALSE]
<1>1. /\ pc[t] = "invoke" /\ TypeOK /\ req[t] \in Request /\ req[t].name \in Names
  BY ManagerCall DEF InvokeWarm
<1>2. SameRequest(t, l)
  BY <1>1 DEF SameRequest, Request, TypeOK
<1>. QED
  BY <1>1, <1>2, ManagerMove DEF InvokeWarm, TypeOK, pool

\* The function answers.
LEMMA FunctionReturnsMoves ==
    ASSUME StoreInv, NEW t \in Threads, FunctionReturns(t)
    PROVE  ManagerMoves(t)
<1>1. pc[t] = "serve" /\ TypeOK /\ req[t] \in Request
  BY ManagerCall DEF FunctionReturns
<1>2. PICK status \in {"success", "error"} :
        Move(t, "insert", [req[t] EXCEPT !.status = status])
  BY DEF FunctionReturns
<1>3. /\ SameRequest(t, [req[t] EXCEPT !.status = status])
      /\ [req[t] EXCEPT !.status = status].status # "none"
  BY <1>1, <1>2 DEF SameRequest, Request, Statuses
<1>. QED
  BY <1>1, <1>2, <1>3, ManagerMove DEF FunctionReturns, TypeOK, pool

\* Ending a lease keeps the pool's types.
LEMMA EndLeaseTypes ==
    ASSUME TypeOK, NEW t \in Threads, EndLease(t)
    PROVE  /\ lease' \in [Names -> ContainerIds \cup {Null}]
           /\ spent' = spent
BY DEF TypeOK, EndLease, Pool!End

\* A timeout.
LEMMA FunctionTimesOutMoves ==
    ASSUME StoreInv, NEW t \in Threads, FunctionTimesOut(t)
    PROVE  ManagerMoves(t)
<1>. DEFINE l == [req[t] EXCEPT !.status = "timeout"]
<1>1. pc[t] = "serve" /\ TypeOK /\ req[t] \in Request
  BY ManagerCall DEF FunctionTimesOut
<1>2. SameRequest(t, l) /\ l.status # "none"
  BY <1>1 DEF SameRequest, Request, Statuses
<1>. QED
  BY <1>1, <1>2, EndLeaseTypes, ManagerMove DEF FunctionTimesOut, TypeOK

\* A failed connection, with and without a second attempt.
LEMMA ConnectionFailsMoves ==
    ASSUME StoreInv, NEW t \in Threads, ConnectionFails(t)
    PROVE  ManagerMoves(t)
<1>. DEFINE again == [req[t] EXCEPT !.attempt = 2]
            l == [req[t] EXCEPT !.status = "infra_error"]
<1>1. pc[t] = "serve" /\ TypeOK /\ req[t] \in Request
  BY ManagerCall DEF ConnectionFails
<1>2. SameRequest(t, l) /\ l.status # "none" /\ SameRequest(t, again)
  BY <1>1 DEF SameRequest, Request, Statuses
<1>3. Move(t, "insert", l) \/ Move(t, "invoke", again)
  BY DEF ConnectionFails
<1>4. /\ lease' \in [Names -> ContainerIds \cup {Null}]
      /\ spent' = spent
      /\ UNCHANGED <<db, requests, answered>>
  BY <1>1, EndLeaseTypes DEF ConnectionFails
<1>. HIDE DEF l, again
<1>. QED
  BY <1>1, <1>2, <1>3, <1>4, ManagerMove DEF TypeOK

\* The calls of the manager, all of them.
LEMMA ManagerInv ==
    ASSUME StoreInv, NEW t \in Threads,
           \/ InvokeCold(t) \/ StartFails(t) \/ InvokeWarm(t) \/ FunctionReturns(t)
           \/ FunctionTimesOut(t) \/ ConnectionFails(t)
    PROVE  ManagerMoves(t) /\ StoreInv'
BY InvokeColdMoves, StartFailsMoves, InvokeWarmMoves, FunctionReturnsMoves,
   FunctionTimesOutMoves, ConnectionFailsMoves, ManagerStep

\* DELETE calls terminate().
LEMMA TerminateInv ==
    ASSUME StoreInv, NEW t \in Threads, Terminate(t)
    PROVE  StoreInv'
<1>1. TypeOK /\ ThreadInv(t) /\ pc[t] = "terminate"
  BY DEF StoreInv, Terminate
<1>2. pc'[t] = "reply" /\ req'[t] = req[t]
  BY <1>1 DEF Terminate, Move, TypeOK
<1>3. TypeOK'
  BY <1>1 DEF Terminate, Move, TypeOK, Locations, db, Pool!End
<1>4. ThreadInv(t)'
  BY <1>1, <1>2 DEF Terminate, db, ThreadInv, LockInv, HandlerInv, ConnectionInv
<1>5. OwnStep(t)
  BY DEF Terminate, OwnStep, connection, db
<1>. QED
  BY <1>3, <1>4, <1>5, HandlerStep DEF Terminate

\* The reply: an id that is handed out names the caller's row.
LEMMA ReplyInv ==
    ASSUME StoreInv, NEW t \in Threads, Reply(t)
    PROVE  StoreInv'
<1>1. TypeOK /\ ThreadInv(t) /\ pc[t] = "reply" /\ req[t] \in Request /\ IdsStayValid
  BY DEF StoreInv, TypeOK, Reply, ThreadInv, HandlerInv
<1>2. pc'[t] = "out" /\ rows' = rows /\ lock' = lock
  BY <1>1 DEF Reply, Move, TypeOK, db
<1>3. TypeOK'
  <2>1. <<req[t].id, req[t].input>> \in Nat \X (1..MaxRequests)
    BY <1>1 DEF Request
  <2>2. answered' \subseteq Nat \X (1..MaxRequests)
    BY <1>1, <2>1 DEF Reply, TypeOK
  <2>. QED
    BY <1>1, <2>2 DEF Reply, Move, TypeOK, Locations, db, pool
<1>4. IdsStayValid'
  <2>1. ASSUME NEW a \in answered' PROVE a \in answered \/
            (/\ a[1] = req[t].id /\ a[2] = req[t].input
             /\ req[t].kind = "invoke" /\ req[t].id # 0)
    BY <2>1 DEF Reply
  <2>. QED
    BY <1>1, <1>2, <2>1 DEF IdsStayValid, ThreadInv, ConnectionInv
<1>5. ThreadInv(t)'
  BY <1>2 DEF ThreadInv, LockInv
<1>6. OwnStep(t)
  BY DEF Reply, OwnStep, connection, db
<1>7. ASSUME NEW u \in Threads, u # t PROVE ThreadInv(u)'
  BY <1>6, <1>7, OthersKeep DEF Reply, Move, StoreInv, TypeOK
<1>. QED
  BY <1>3, <1>4, <1>5, <1>7 DEF StoreInv

\* The reaper, a crash and a stuttering step.
LEMMA BackgroundInv ==
    ASSUME StoreInv, Reap \/ Crash \/ UNCHANGED vars
    PROVE  StoreInv'
<1>1. CASE Reap
  <2>1. TypeOK'
    BY <1>1 DEF StoreInv, TypeOK, Reap, db, Pool!End
  <2>2. ASSUME NEW u \in Threads PROVE ThreadInv(u)'
    BY <1>1, <2>2 DEF StoreInv, Reap, db, ThreadInv, LockInv, HandlerInv, ConnectionInv
  <2>. QED
    BY <1>1, <2>1, <2>2 DEF StoreInv, Reap, db, IdsStayValid
<1>2. CASE Crash
  BY <1>2 DEF StoreInv, TypeOK, Crash, Locations, ThreadInv, LockInv, IdsStayValid
<1>3. CASE UNCHANGED vars
  <2>1. TypeOK'
    BY <1>3 DEF StoreInv, TypeOK, vars, db, pool
  <2>2. ASSUME NEW u \in Threads PROVE ThreadInv(u)'
    BY <1>3, <2>2 DEF StoreInv, vars, db, ThreadInv, LockInv, HandlerInv, ConnectionInv
  <2>. QED
    BY <1>3, <2>1, <2>2 DEF StoreInv, vars, db, IdsStayValid
<1>. QED
  BY <1>1, <1>2, <1>3

-----------------------------------------------------------------------------
\* The tables, the lock and the handlers' locals agree in every behaviour.
THEOREM StoreInvariance == Spec => []StoreInv
<1>1. Init => StoreInv
  <2>. SUFFICES ASSUME Init PROVE StoreInv
    OBVIOUS
  <2>1. TypeOK
    BY ControlPlaneAssumption DEF Init, TypeOK, Locations, Pool!Init
  <2>. QED
    BY <2>1 DEF Init, StoreInv, ThreadInv, LockInv, IdsStayValid
<1>2. StoreInv /\ [Next]_vars => StoreInv'
  BY ArriveInv, PrepareInv, UpsertInv, SelectInv, DeleteInv, ReadChangesInv, InsertInv,
     ReadRowIdInv, LookupInv, ManagerInv, TerminateInv, ReplyInv, BackgroundInv
  DEF Next, Step, Query, Manage
<1>. QED
  BY <1>1, <1>2, PTL DEF Spec

\* Every variable of the handlers and the stores keeps its type.
THEOREM HandlersTyped == Spec => []TypeOK
<1>1. StoreInv => TypeOK
  BY DEF StoreInv
<1>. QED
  BY <1>1, StoreInvariance, PTL

\* A DELETE's answer is about its own statement.
THEOREM VerdictsAreOwn == Spec => []VerdictIsOwn
<1>1. StoreInv => VerdictIsOwn
  BY DEF StoreInv, VerdictIsOwn, ThreadInv, ConnectionInv
<1>. QED
  BY <1>1, StoreInvariance, PTL

\* The id an invocation was answered with names its record for ever.
THEOREM IdsNeverGoStale == Spec => []IdsStayValid
<1>1. StoreInv => IdsStayValid
  BY DEF StoreInv
<1>. QED
  BY <1>1, StoreInvariance, PTL

-----------------------------------------------------------------------------
(***************************************************************************)
(* The stores implement AtomicStore.  An operation takes effect when its   *)
(* statement is stepped; what the connection then says is the operation's  *)
(* result already, because it cannot change before the thread reads it.    *)
(***************************************************************************)

\* The operations of all threads, AtomicStore's op.
ops == [t \in Threads |-> Op(t)]

\* Which operation a thread has called, or what it got, at each location.
OpByLocation(t) ==
    /\ pc[t] = "out" => Op(t) = Null
    /\ pc[t] = "reply" /\ req[t].kind = "refused" => Op(t) = Null
    /\ pc[t] = "upsert" => Op(t) = <<"register", req[t].deployed>>
    /\ pc[t] = "select" => Op(t) = <<"get", req[t].name>>
    /\ pc[t] = "delete" => Op(t) = <<"remove", req[t].name>>
    /\ pc[t] = "insert" => Op(t) = <<"record", NewRow(t)>>
    /\ pc[t] = "lookup" => Op(t) = <<"lookup", req[t].id>>
    /\ pc[t] = "changes" => Op(t) = <<"removed", changes > 0>>
    /\ pc[t] = "rowid" => Op(t) = <<"id", last_insert_id>>
    /\ pc[t] \in {"terminate", "reply"} /\ req[t].kind = "delete" =>
        Op(t) = <<"removed", req[t].removed>>
    /\ pc[t] = "reply" /\ req[t].kind = "lookup" => Op(t) = <<"found", req[t].found>>
    /\ pc[t] = "reply" /\ req[t].kind = "invoke" /\ req[t].id # 0 =>
        Op(t) = <<"id", req[t].id>>
    /\ pc[t] \in {"invoke", "serve"} => Op(t) = <<"got", req[t].spec>>
    /\ pc[t] = "reply" /\ req[t].kind \in {"deploy", "get"} => Op(t) = <<"got", req[t].spec>>
    /\ pc[t] = "reply" /\ req[t].kind = "invoke" /\ req[t].id = 0 =>
        Op(t) = <<"got", req[t].spec>>

\* The cases of Op exclude one another.
LEMMA OpAt ==
    ASSUME NEW t \in Threads
    PROVE  OpByLocation(t) /\ OpByLocation(t)'
<1>1. OpByLocation(t)
  BY DEF OpByLocation, Op
<1>2. OpByLocation(t)'
  BY DEF OpByLocation, Op
<1>. QED
  BY <1>1, <1>2

\* A step of t changes no other thread's operation: what the connection says
\* is another thread's result only while that thread has the lock.
LEMMA OthersOps ==
    ASSUME StoreInv, NEW t \in Threads, NEW u \in Threads, u # t,
           pc'[u] = pc[u], req'[u] = req[u], OwnStep(t)
    PROVE  Op(u)' = Op(u)
<1>1. NewRow(u)' = NewRow(u)
  BY DEF NewRow
<1>2. CASE changes' = changes /\ last_insert_id' = last_insert_id
  BY <1>1, <1>2 DEF Op
<1>3. CASE lock # Null /\ lock[1] = t
  <2>1. pc[u] # "changes" /\ pc[u] # "rowid"
    BY <1>3 DEF StoreInv, ThreadInv, LockInv
  <2>. QED
    BY <1>1, <2>1 DEF Op
<1>. QED
  BY <1>2, <1>3 DEF OwnStep, connection

\* So a step of t changes ops at t only.
LEMMA OpsChange ==
    ASSUME StoreInv, NEW t \in Threads, NEW to, NEW l, Move(t, to, l), OwnStep(t)
    PROVE  ops' = [ops EXCEPT ![t] = Op(t)']
<1>1. ASSUME NEW u \in Threads, u # t PROVE Op(u)' = Op(u)
  BY <1>1, OthersOps DEF Move, StoreInv, TypeOK
<1>. QED
  BY <1>1 DEF ops

\* A step that goes from no operation, or from a result, to a call.
LEMMA CallStep ==
    ASSUME NEW t \in Threads, ops' = [ops EXCEPT ![t] = Op(t)'],
           Op(t) = Null \/ (\E what \in {"got", "removed", "id", "found"} : \E v : Op(t) = <<what, v>>),
           Op(t)' \in Store!Calls, UNCHANGED <<functions, rows>>
    PROVE  Store!Next
<1>1. ops[t] = Op(t) /\ ops'[t] = Op(t)'
  BY DEF ops
<1>2. Store!Call(t)
  BY <1>1 DEF Store!Call, ops
<1>. QED
  BY <1>2 DEF Store!Next

\* A request's first statement is a call.
LEMMA BeginCalls ==
    ASSUME StoreInv, NEW t \in Threads, NEW kind, NEW to, NEW name, NEW deployed, NEW id,
           Begin(t, kind, to, name, deployed, id),
           \/ to = "upsert" /\ deployed \in Specs
           \/ to \in {"select", "delete"} /\ name \in Names
           \/ to = "lookup" /\ id \in 1..MaxRequests
    PROVE  Store!Next
<1>. DEFINE l == [kind |-> kind, name |-> name, input |-> requests + 1,
                  deployed |-> deployed, spec |-> Null, removed |-> FALSE,
                  deleted |-> FALSE, id |-> id, found |-> Null, attempt |-> 1,
                  container |-> Null, cold_start |-> FALSE, status |-> "none"]
<1>1. pc[t] = "out" /\ Move(t, to, l) /\ UNCHANGED <<db, pool, answered>>
  BY DEF Begin
<1>2. pc'[t] = to /\ req'[t] = l
  BY <1>1 DEF Move, StoreInv, TypeOK
<1>3. OwnStep(t)
  BY <1>1 DEF OwnStep, connection, db
<1>4. ops' = [ops EXCEPT ![t] = Op(t)']
  BY <1>1, <1>3, OpsChange
<1>5. Op(t) = Null
  BY <1>1, OpAt DEF OpByLocation
<1>6. l.deployed = deployed /\ l.name = name /\ l.id = id
  OBVIOUS
<1>7. \/ Op(t)' = <<"register", deployed>> /\ deployed \in Specs
      \/ Op(t)' = <<"get", name>> /\ name \in Names
      \/ Op(t)' = <<"remove", name>> /\ name \in Names
      \/ Op(t)' = <<"lookup", id>> /\ id \in 1..MaxRequests
  <2>. HIDE DEF l
  <2>. QED
    BY <1>2, <1>6, OpAt DEF OpByLocation
<1>8. Op(t)' \in Store!Calls
  BY <1>7 DEF Store!Calls
<1>. QED
  BY <1>1, <1>4, <1>5, <1>8, CallStep DEF db

\* A request that is refused calls nothing.
LEMMA RefuseForgets ==
    ASSUME StoreInv, NEW t \in Threads, Refuse(t)
    PROVE  Store!Next
<1>1. PICK l : /\ Move(t, "reply", l) /\ l.kind = "refused"
               /\ UNCHANGED <<db, pool, answered>>
  BY DEF Refuse, Begin
<1>2. pc'[t] = "reply" /\ req'[t].kind = "refused"
  BY <1>1 DEF Move, StoreInv, TypeOK
<1>3. OwnStep(t)
  BY <1>1 DEF OwnStep, connection, db
<1>4. ops' = [ops EXCEPT ![t] = Null]
  BY <1>1, <1>2, <1>3, OpsChange, OpAt DEF OpByLocation
<1>5. Store!Forget(t)
  BY <1>1, <1>4 DEF Store!Forget, ops, db
<1>. QED
  BY <1>5 DEF Store!Next

\* A request arrives: its first call of the store.
LEMMA ArriveCalls ==
    ASSUME StoreInv, NEW t \in Threads, Arrive(t)
    PROVE  Store!Next
<1>1. ASSUME NEW s \in Specs, PostFunctions(t, s) PROVE Store!Next
  BY <1>1, BeginCalls DEF PostFunctions
<1>2. ASSUME NEW f \in Names, GetFunction(t, f) \/ InvokeFunction(t, f) PROVE Store!Next
  BY <1>2, BeginCalls DEF GetFunction, InvokeFunction
<1>3. ASSUME NEW f \in Names, DeleteFunction(t, f) PROVE Store!Next
  BY <1>3, BeginCalls DEF DeleteFunction
<1>4. ASSUME NEW id \in 1..MaxRequests, GetInvocation(t, id) PROVE Store!Next
  BY <1>4, BeginCalls DEF GetInvocation
<1>. QED
  BY <1>1, <1>2, <1>3, <1>4, RefuseForgets DEF Arrive

\* The upsert is the write of register_function, whose read comes next.
LEMMA UpsertRegisters ==
    ASSUME StoreInv, NEW t \in Threads, Upsert(t)
    PROVE  Store!Next
<1>. DEFINE s == req[t].deployed
<1>1. /\ TypeOK /\ ThreadInv(t) /\ pc[t] = "upsert" /\ lock = <<t, "upsert">> /\ lock # Null
      /\ req[t] \in Request
  BY ControlPlaneAssumption DEF Upsert, Holds, StoreInv, TypeOK, ThreadInv, HandlerInv, Statements
<1>2. req[t].kind \in Kinds
  BY <1>1 DEF Request
<1>3. s \in Specs /\ s.name = req[t].name
  BY <1>1, <1>2 DEF Kinds, ThreadInv, HandlerInv
<1>4. Move(t, "select", req[t]) /\ rows' = rows /\ functions' = [functions EXCEPT ![s.name] = s]
  BY DEF Upsert
<1>5. OwnStep(t)
  BY <1>1, <1>4 DEF OwnStep
<1>6. pc'[t] = "select" /\ req'[t] = req[t]
  BY <1>1, <1>4 DEF Move, TypeOK
<1>7. Op(t) = <<"register", s>> /\ Op(t)' = <<"get", s.name>>
  BY <1>1, <1>3, <1>6, OpAt DEF OpByLocation
<1>8. ops[t] = <<"register", s>> /\ ops' = [ops EXCEPT ![t] = <<"get", s.name>>]
  BY <1>4, <1>5, <1>7, OpsChange DEF ops
<1>. HIDE DEF s
<1>9. Store!register_function(t, s)
  BY <1>4, <1>8 DEF Store!register_function, Store!Goes, ops
<1>. QED
  BY <1>3, <1>9 DEF Store!Next

\* The SELECT is get, for a handler's own call and inside register_function.
LEMMA SelectGets ==
    ASSUME StoreInv, NEW t \in Threads, Select(t)
    PROVE  Store!Next
<1>. DEFINE to == IF req[t].kind = "invoke" /\ Registered(req[t].name) THEN "invoke" ELSE "reply"
            f  == req[t].name
            l  == [req[t] EXCEPT !.spec = functions[f]]
<1>1. /\ TypeOK /\ ThreadInv(t) /\ pc[t] = "select" /\ lock = <<t, "select">> /\ lock # Null
      /\ req[t] \in Request
  BY ControlPlaneAssumption DEF Select, Holds, StoreInv, TypeOK, ThreadInv, HandlerInv, Statements
<1>2. /\ req[t].kind \in {"deploy", "get", "invoke"} /\ f \in Names
      /\ req[t].kind = "invoke" => req[t].id = 0
  <2>1. req[t].kind \in Kinds
    BY <1>1 DEF Request
  <2>. QED
    BY <1>1, <2>1 DEF Kinds, ThreadInv, HandlerInv
<1>3. Move(t, to, l) /\ UNCHANGED <<functions, rows>>
  BY DEF Select
<1>4. OwnStep(t)
  BY <1>1, <1>3 DEF OwnStep
<1>5. /\ pc'[t] = to /\ req'[t] = l /\ l.spec = functions[f]
      /\ l.kind = req[t].kind /\ l.id = req[t].id
  BY <1>1, <1>3 DEF Move, TypeOK, Request
<1>6. to \in {"invoke", "reply"}
  OBVIOUS
<1>7. Op(t) = <<"get", f>> /\ Op(t)' = <<"got", functions[f]>>
  <2>. HIDE DEF to, l
  <2>. QED
    BY <1>1, <1>2, <1>5, <1>6, OpAt DEF OpByLocation
<1>8. ops[t] = <<"get", f>> /\ ops' = [ops EXCEPT ![t] = <<"got", functions[f]>>]
  BY <1>3, <1>4, <1>7, OpsChange DEF ops
<1>. HIDE DEF f
<1>9. Store!get(t, f)
  BY <1>3, <1>8 DEF Store!get, Store!Goes, ops
<1>. QED
  BY <1>2, <1>9 DEF Store!Next

\* The DELETE is remove: from then on the connection says what it returns.
LEMMA DeleteRemoves ==
    ASSUME StoreInv, NEW t \in Threads, Delete(t)
    PROVE  Store!Next
<1>. DEFINE f == req[t].name
            l == [req[t] EXCEPT !.deleted = Registered(f)]
<1>1. /\ TypeOK /\ pc[t] = "delete" /\ lock = <<t, "delete">> /\ lock # Null
      /\ req[t] \in Request
  BY ControlPlaneAssumption
  DEF Delete, Holds, StoreInv, TypeOK, ThreadInv, HandlerInv, Statements
<1>2. f \in Names
  BY <1>1 DEF StoreInv, ThreadInv, HandlerInv
<1>3. /\ Move(t, "changes", l) /\ rows' = rows /\ functions' = [functions EXCEPT ![f] = Null]
      /\ changes' = IF functions[f] # Null THEN 1 ELSE 0
  BY DEF Delete, Registered
<1>4. OwnStep(t)
  BY <1>1, <1>3 DEF OwnStep
<1>5. pc'[t] = "changes"
  BY <1>1, <1>3 DEF Move, TypeOK
<1>6. (changes' > 0) = (functions[f] # Null)
  BY <1>3
<1>7. Op(t) = <<"remove", f>> /\ Op(t)' = <<"removed", functions[f] # Null>>
  <2>1. Op(t)' = <<"removed", changes' > 0>>
    BY <1>5, OpAt DEF OpByLocation
  <2>. QED
    BY <1>1, <1>6, <2>1, OpAt DEF OpByLocation
<1>8. ops[t] = <<"remove", f>> /\ ops' = [ops EXCEPT ![t] = <<"removed", functions[f] # Null>>]
  BY <1>3, <1>4, <1>7, OpsChange DEF ops
<1>. HIDE DEF f
<1>9. Store!remove(t, f)
  BY <1>3, <1>8 DEF Store!remove, Store!Goes, ops
<1>. QED
  BY <1>2, <1>9 DEF Store!Next

\* The INSERT is record: from then on the connection says the id it returns.
LEMMA InsertRecords ==
    ASSUME StoreInv, NEW t \in Threads, Insert(t)
    PROVE  Store!Next
<1>1. /\ TypeOK /\ pc[t] = "insert" /\ lock = <<t, "insert">> /\ lock # Null
      /\ req[t] \in Request
  BY ControlPlaneAssumption
  DEF Insert, Holds, StoreInv, TypeOK, ThreadInv, HandlerInv, Statements
<1>2. NewRow(t) \in Row
  <2>1. req[t].name \in Names /\ req[t].status # "none"
    BY <1>1 DEF StoreInv, ThreadInv, HandlerInv
  <2>. QED
    BY <1>1, <2>1 DEF NewRow, Request, Row
<1>3. /\ Move(t, "rowid", req[t]) /\ rows' = Append(rows, NewRow(t)) /\ functions' = functions
      /\ last_insert_id' = Len(rows) + 1
  BY DEF Insert
<1>4. OwnStep(t)
  BY <1>1, <1>2, <1>3 DEF OwnStep
<1>5. pc'[t] = "rowid"
  BY <1>1, <1>3 DEF Move, TypeOK
<1>6. Op(t) = <<"record", NewRow(t)>> /\ Op(t)' = <<"id", Len(rows) + 1>>
  BY <1>1, <1>3, <1>5, OpAt DEF OpByLocation
<1>7. ops[t] = <<"record", NewRow(t)>> /\ ops' = [ops EXCEPT ![t] = <<"id", Len(rows) + 1>>]
  BY <1>3, <1>4, <1>6, OpsChange DEF ops
<1>8. Store!record(t, NewRow(t))
  BY <1>3, <1>7 DEF Store!record, Store!Goes, ops
<1>. QED
  BY <1>2, <1>8 DEF Store!Next

\* InvocationStore::get.
LEMMA LookupLooksUp ==
    ASSUME StoreInv, NEW t \in Threads, Lookup(t)
    PROVE  Store!Next
<1>. DEFINE id == req[t].id
            found == IF id \in 1..Len(rows) THEN rows[id] ELSE Null
            l == [req[t] EXCEPT !.found = found]
<1>1. /\ TypeOK /\ pc[t] = "lookup" /\ lock = <<t, "lookup">> /\ lock # Null
      /\ req[t] \in Request
  BY ControlPlaneAssumption
  DEF Lookup, Holds, StoreInv, TypeOK, ThreadInv, HandlerInv, Statements
<1>2. req[t].kind = "lookup" /\ id \in 1..MaxRequests
  <2>1. req[t].kind \in Kinds
    BY <1>1 DEF Request
  <2>. QED
    BY <1>1, <2>1 DEF Kinds, StoreInv, ThreadInv, HandlerInv
<1>3. Move(t, "reply", l) /\ UNCHANGED <<functions, rows>>
  BY DEF Lookup
<1>4. OwnStep(t)
  BY <1>1, <1>3 DEF OwnStep
<1>5. pc'[t] = "reply" /\ req'[t] = l /\ l.kind = req[t].kind /\ l.found = found
  BY <1>1, <1>3 DEF Move, TypeOK, Request
<1>6. Op(t) = <<"lookup", id>> /\ Op(t)' = <<"found", found>>
  <2>. HIDE DEF l, found
  <2>. QED
    BY <1>1, <1>2, <1>5, OpAt DEF OpByLocation
<1>7. ops[t] = <<"lookup", id>> /\ ops' = [ops EXCEPT ![t] = <<"found", found>>]
  BY <1>3, <1>4, <1>6, OpsChange DEF ops
<1>. HIDE DEF id
<1>8. Store!lookup(t, id)
  BY <1>3, <1>7 DEF Store!lookup, Store!Goes, ops
<1>. QED
  BY <1>2, <1>8 DEF Store!Next

\* A step of t that neither calls an operation nor gets a result is not seen.
LEMMA Unseen ==
    ASSUME StoreInv, NEW t \in Threads, NEW to, NEW l, Move(t, to, l), OwnStep(t),
           Op(t)' = Op(t), UNCHANGED <<functions, rows>>
    PROVE  UNCHANGED Store!vars
<1>1. ops' = ops
  BY OpsChange DEF ops
<1>. QED
  BY <1>1 DEF ops, Store!vars

\* Taking the lock.
LEMMA PrepareUnseen ==
    ASSUME StoreInv, NEW t \in Threads, Prepare(t)
    PROVE  UNCHANGED Store!vars
<1>1. ASSUME NEW u \in Threads PROVE Op(u)' = Op(u)
  <2>1. NewRow(u)' = NewRow(u)
    BY DEF NewRow, Prepare
  <2>. QED
    BY <2>1 DEF Op, Prepare
<1>. QED
  BY <1>1 DEF Prepare, Store!vars

\* Reading changes() under the lock of the DELETE.
LEMMA ReadChangesUnseen ==
    ASSUME StoreInv, NEW t \in Threads, ReadChanges(t)
    PROVE  UNCHANGED Store!vars
<1>. DEFINE to == IF changes > 0 THEN "terminate" ELSE "reply"
            l  == [req[t] EXCEPT !.removed = changes > 0]
<1>1. /\ TypeOK /\ pc[t] = "changes" /\ lock = <<t, "delete">> /\ lock # Null
      /\ req[t] \in Request
  BY ControlPlaneAssumption
  DEF ReadChanges, StoreInv, TypeOK, ThreadInv, LockInv, HandlerInv, Statements
<1>2. req[t].kind = "delete"
  <2>1. req[t].kind \in Kinds
    BY <1>1 DEF Request
  <2>. QED
    BY <1>1, <2>1 DEF Kinds, StoreInv, ThreadInv, HandlerInv
<1>3. Move(t, to, l) /\ UNCHANGED <<functions, rows>>
  BY DEF ReadChanges
<1>4. OwnStep(t)
  BY <1>1, <1>3 DEF OwnStep
<1>5. /\ pc'[t] = to /\ req'[t] = l /\ to \in {"terminate", "reply"}
      /\ l.kind = req[t].kind /\ l.removed = (changes > 0)
  BY <1>1, <1>3 DEF Move, TypeOK, Request
<1>6. Op(t)' = Op(t)
  <2>. HIDE DEF to, l
  <2>1. Op(t) = <<"removed", changes > 0>>
    BY <1>1, OpAt DEF OpByLocation
  <2>2. Op(t)' = <<"removed", l.removed>>
    BY <1>2, <1>5, OpAt DEF OpByLocation
  <2>. QED
    BY <1>5, <2>1, <2>2
<1>. QED
  BY <1>3, <1>4, <1>6, Unseen

\* Reading last_insert_id() under the lock of the INSERT.
LEMMA ReadRowIdUnseen ==
    ASSUME StoreInv, NEW t \in Threads, ReadRowId(t)
    PROVE  UNCHANGED Store!vars
<1>. DEFINE l == [req[t] EXCEPT !.id = last_insert_id]
<1>1. /\ TypeOK /\ pc[t] = "rowid" /\ lock = <<t, "insert">> /\ lock # Null
      /\ req[t] \in Request /\ last_insert_id # 0
  BY ControlPlaneAssumption
  DEF ReadRowId, StoreInv, TypeOK, ThreadInv, LockInv, HandlerInv, ConnectionInv, Statements
<1>2. req[t].kind = "invoke"
  <2>1. req[t].kind \in Kinds
    BY <1>1 DEF Request
  <2>. QED
    BY <1>1, <2>1 DEF Kinds, StoreInv, ThreadInv, HandlerInv
<1>3. Move(t, "reply", l) /\ UNCHANGED <<functions, rows>>
  BY DEF ReadRowId
<1>4. OwnStep(t)
  BY <1>1, <1>3 DEF OwnStep
<1>5. pc'[t] = "reply" /\ req'[t] = l /\ l.kind = req[t].kind /\ l.id = last_insert_id
  BY <1>1, <1>3 DEF Move, TypeOK, Request
<1>6. Op(t)' = Op(t)
  <2>. HIDE DEF l
  <2>. QED
    BY <1>1, <1>2, <1>5, OpAt DEF OpByLocation
<1>. QED
  BY <1>3, <1>4, <1>6, Unseen

\* A call of the manager is not seen; the status it ends with is recorded.
LEMMA ManagerSeen ==
    ASSUME StoreInv, NEW t \in Threads, ManagerMoves(t)
    PROVE  Store!Next \/ UNCHANGED Store!vars
<1>1. PICK to \in {"invoke", "serve", "insert"}, l \in Request :
        Move(t, to, l) /\ SameRequest(t, l) /\ (to = "insert" => l.status # "none")
  BY DEF ManagerMoves
<1>2. TypeOK /\ pc[t] \in {"invoke", "serve"} /\ UNCHANGED <<functions, rows>> /\ OwnStep(t)
  BY DEF StoreInv, ManagerMoves, OwnStep, connection, db
<1>3. pc'[t] = to /\ req'[t] = l
  BY <1>1, <1>2 DEF Move, TypeOK
<1>4. Op(t) = <<"got", req[t].spec>>
  BY <1>2, OpAt DEF OpByLocation
<1>5. CASE to = "insert"
  <2>1. Op(t)' = <<"record", NewRow(t)'>>
    BY <1>3, <1>5, OpAt DEF OpByLocation
  <2>2. l.name \in Names /\ l.status \in Statuses \ {"none"}
    BY <1>1, <1>2, <1>5, ManagerCall DEF SameRequest, Request
  <2>3. NewRow(t)' \in Row
    BY <1>3, <2>2 DEF NewRow, Row, Request
  <2>4. Op(t)' \in Store!Calls
    BY <2>1, <2>3 DEF Store!Calls
  <2>. QED
    BY <1>1, <1>2, <1>4, <2>4, OpsChange, CallStep
<1>6. CASE to # "insert"
  <2>1. Op(t)' = <<"got", l.spec>>
    BY <1>3, <1>6, OpAt DEF OpByLocation
  <2>2. Op(t)' = Op(t)
    BY <1>1, <1>4, <2>1 DEF SameRequest
  <2>. QED
    BY <1>1, <1>2, <2>2, Unseen
<1>. QED
  BY <1>5, <1>6

\* terminate() is not seen: the verdict was remove's.
LEMMA TerminateUnseen ==
    ASSUME StoreInv, NEW t \in Threads, Terminate(t)
    PROVE  UNCHANGED Store!vars
<1>1. /\ TypeOK /\ pc[t] = "terminate" /\ req[t] \in Request
      /\ Move(t, "reply", req[t]) /\ UNCHANGED <<functions, rows>> /\ OwnStep(t)
  BY DEF Terminate, StoreInv, TypeOK, ThreadInv, HandlerInv, OwnStep, connection, db
<1>2. req[t].kind = "delete"
  <2>1. req[t].kind \in Kinds
    BY <1>1 DEF Request
  <2>. QED
    BY <1>1, <2>1 DEF Kinds, StoreInv, ThreadInv, HandlerInv
<1>3. pc'[t] = "reply" /\ req'[t] = req[t]
  BY <1>1 DEF Move, TypeOK
<1>4. Op(t)' = Op(t)
  BY <1>1, <1>2, <1>3, OpAt DEF OpByLocation
<1>. QED
  BY <1>1, <1>4, Unseen

\* The reply forgets the operation.
LEMMA ReplyForgets ==
    ASSUME StoreInv, NEW t \in Threads, Reply(t)
    PROVE  Store!Next
<1>1. TypeOK /\ Move(t, "out", Null) /\ UNCHANGED <<functions, rows>> /\ OwnStep(t)
  BY DEF Reply, StoreInv, OwnStep, connection, db
<1>2. Op(t)' = Null
  BY <1>1, OpAt DEF OpByLocation, Move, TypeOK
<1>3. ops' = [ops EXCEPT ![t] = Null]
  BY <1>1, <1>2, OpsChange
<1>4. Store!Forget(t)
  BY <1>1, <1>3 DEF Store!Forget, ops
<1>. QED
  BY <1>4 DEF Store!Next

\* The reaper is not seen; a crash forgets every operation.
LEMMA BackgroundSeen ==
    ASSUME StoreInv, Reap \/ Crash \/ UNCHANGED vars
    PROVE  Store!Next \/ UNCHANGED Store!vars
<1>1. CASE Reap \/ UNCHANGED vars
  <2>1. UNCHANGED <<db, pc, req>>
    BY <1>1 DEF Reap, vars
  <2>2. ASSUME NEW u \in Threads PROVE Op(u)' = Op(u)
    <3>1. NewRow(u)' = NewRow(u)
      BY <2>1 DEF NewRow
    <3>. QED
      BY <2>1, <3>1 DEF Op, db
  <2>. QED
    BY <2>1, <2>2 DEF Store!vars, db
<1>2. CASE Crash
  <2>1. ASSUME NEW u \in Threads PROVE Op(u)' = Null
    BY <1>2, OpAt DEF OpByLocation, Crash
  <2>2. Store!Crash
    BY <1>2, <2>1 DEF Store!Crash, Crash
  <2>. QED
    BY <2>2 DEF Store!Next
<1>. QED
  BY <1>1, <1>2

\* Every operation of the stores takes effect at one moment, for any number of
\* threads, names, specs and requests, and for crashes at any moment.
THEOREM StoresAreAtomic == Spec => ImplementsStore
<1>1. Init => Store!Init
  <2>. SUFFICES ASSUME Init PROVE Store!Init
    OBVIOUS
  <2>1. ASSUME NEW t \in Threads PROVE Op(t) = Null
    BY OpAt DEF OpByLocation, Init
  <2>. QED
    BY <2>1 DEF Init, Store!Init
<1>2. StoreInv /\ [Next]_vars => [Store!Next]_Store!vars
  BY ArriveCalls, PrepareUnseen, UpsertRegisters, SelectGets, DeleteRemoves, ReadChangesUnseen,
     InsertRecords, ReadRowIdUnseen, LookupLooksUp, ManagerInv, ManagerSeen, TerminateUnseen,
     ReplyForgets, BackgroundSeen
  DEF Next, Step, Query, Manage
<1>. QED
  BY <1>1, <1>2, StoreInvariance, PTL DEF Spec, ImplementsStore, Store!Spec

=============================================================================
