---------------------------- MODULE ControlPlane ----------------------------
(***************************************************************************)
(* The request handlers of the control plane (control-plane/src/main.cpp)  *)
(* over the two stores that share one SQLite connection (database.cpp,     *)
(* function_registry.cpp, invocation_store.cpp) and over the runtime       *)
(* manager, which appears as the pool of leases it implements              *)
(* (RuntimePool).                                                          *)
(*                                                                         *)
(* A Statement holds the database's mutex from its construction to its     *)
(* destruction.  Taking the lock, stepping the statement, and reading      *)
(* changes() or last_insert_id() are steps of their own: the two values    *)
(* belong to the connection, not to the statement.                         *)
(***************************************************************************)
EXTENDS Naturals, Sequences

CONSTANTS Names,        \* function names
          Specs,        \* FunctionSpecs that may be deployed
          Threads,      \* request threads
          ContainerIds, \* containers the pool can lease
          MaxRequests,  \* bound: requests handled
          Null

VARIABLES
    functions,      \* table functions: name -> FunctionSpec, Null when there is no row
    rows,           \* table invocations; the id of a row is its position
    lock,           \* the Statement that has Database::mutex_, <<thread, kind>>, or Null
    changes,        \* sqlite3_changes of the connection
    last_insert_id, \* sqlite3_last_insert_rowid of the connection
    pc,             \* where the handler of each request thread is
    req,            \* the request and the handler's locals, Null when it has none
    lease,          \* the manager's table: name -> container, or Null
    spent,          \* containers that can no longer be leased
    requests,       \* requests handled so far; also the next request's input
    answered        \* history: <<id, input>> of the invocations answered with an id

db == <<functions, rows, lock, changes, last_insert_id>>
pool == <<lease, spent>>
vars == <<db, pc, req, pool, requests, answered>>

Pool == INSTANCE RuntimePool

-----------------------------------------------------------------------------
Kinds == {"deploy", "get", "delete", "invoke", "lookup", "refused"}

\* The statements the stores construct.
Statements == {"upsert", "select", "delete", "insert", "lookup"}

Locations == Statements \cup {"out", "changes", "rowid", "terminate", "invoke", "serve", "reply"}

Statuses == {"none", "success", "error", "timeout", "infra_error"}

\* Inputs are told apart by the number of their request.
Row == [function_name : Names, input : 1..MaxRequests,
        status : Statuses \ {"none"}, cold_start : BOOLEAN]

\* spec is what the request deploys or what the registry returned; id is the
\* invocation asked for or recorded, 0 when there is none; removed is
\* remove()'s result and deleted, history, whether its DELETE hit a row.
Request == [kind : Kinds, name : Names \cup {Null}, input : 1..MaxRequests,
            deployed : Specs \cup {Null}, spec : Specs \cup {Null},
            removed : BOOLEAN, deleted : BOOLEAN, id : Nat, found : Row \cup {Null},
            attempt : {1, 2}, container : ContainerIds \cup {Null},
            cold_start : BOOLEAN, status : Statuses]

ASSUME ControlPlaneAssumption ==
    /\ \A s \in Specs : s.name \in Names /\ s.timeout_ms \in Nat
    /\ MaxRequests \in Nat
    /\ Null \notin Specs
    /\ Null \notin ContainerIds
    /\ Null \notin Threads \X Statements
    /\ Null \notin Request

\* Thread t has constructed the statement it is at.
Holds(t) == lock = <<t, pc[t]>>

Registered(f) == functions[f] # Null

\* Thread t goes on to location to with new locals.
Move(t, to, locals) ==
    /\ pc' = [pc EXCEPT ![t] = to]
    /\ req' = [req EXCEPT ![t] = locals]

Init ==
    /\ functions = [f \in Names |-> Null]
    /\ rows = <<>>
    /\ lock = Null
    /\ changes = 0
    /\ last_insert_id = 0
    /\ pc = [t \in Threads |-> "out"]
    /\ req = [t \in Threads |-> Null]
    /\ Pool!Init
    /\ requests = 0
    /\ answered = {}

-----------------------------------------------------------------------------
\* A request arrives and its handler goes to its first statement.

Begin(t, kind, to, name, deployed, id) ==
    /\ pc[t] = "out"
    /\ requests < MaxRequests
    /\ requests' = requests + 1
    /\ Move(t, to, [kind |-> kind, name |-> name, input |-> requests + 1,
                    deployed |-> deployed, spec |-> Null, removed |-> FALSE,
                    deleted |-> FALSE, id |-> id, found |-> Null, attempt |-> 1,
                    container |-> Null, cold_start |-> FALSE, status |-> "none"])
    /\ UNCHANGED <<db, pool, answered>>

PostFunctions(t, s) == Begin(t, "deploy", "upsert", s.name, s, 0)

GetFunction(t, f) == Begin(t, "get", "select", f, Null, 0)

DeleteFunction(t, f) == Begin(t, "delete", "delete", f, Null, 0)

InvokeFunction(t, f) == Begin(t, "invoke", "select", f, Null, 0)

GetInvocation(t, id) == Begin(t, "lookup", "lookup", Null, Null, id)

\* A body that is no JSON or lacks name or image, or an id that is no number,
\* is answered before any statement.
Refuse(t) == Begin(t, "refused", "reply", Null, Null, 0)

-----------------------------------------------------------------------------
\* Statements.

\* The constructor waits for the mutex.
Prepare(t) ==
    /\ pc[t] \in Statements
    /\ lock = Null
    /\ lock' = <<t, pc[t]>>
    /\ UNCHANGED <<functions, rows, changes, last_insert_id, pc, req, pool, requests, answered>>

\* register_function, first half.  The statement's scope ends before get().
\* A new row also moves the connection's last_insert_rowid.
Upsert_KeepsLock(t) ==
    LET s == req[t].deployed
    IN  /\ pc[t] = "upsert"
        /\ Holds(t)
        /\ functions' = [functions EXCEPT ![s.name] = s]
        /\ changes' = 1
        /\ Move(t, "select", req[t])
        /\ UNCHANGED <<rows, lock, last_insert_id, pool, requests, answered>>

Upsert(t) ==
    LET s == req[t].deployed
    IN  /\ pc[t] = "upsert"
        /\ Holds(t)
        /\ functions' = [functions EXCEPT ![s.name] = s]
        /\ changes' = 1
        /\ IF Registered(s.name) THEN UNCHANGED last_insert_id
           ELSE last_insert_id' \in 1..MaxRequests
        /\ lock' = Null
        /\ Move(t, "select", req[t])
        /\ UNCHANGED <<rows, pool, requests, answered>>

\* FunctionRegistry::get.  invoke goes on only with a spec; register_function
\* dereferences the result unchecked, so its reply may hold no stored record.
Select(t) ==
    /\ pc[t] = "select"
    /\ Holds(t)
    /\ lock' = Null
    /\ Move(t, IF req[t].kind = "invoke" /\ Registered(req[t].name) THEN "invoke" ELSE "reply",
            [req[t] EXCEPT !.spec = functions[req[t].name]])
    /\ UNCHANGED <<functions, rows, changes, last_insert_id, pool, requests, answered>>

\* FunctionRegistry::remove: the DELETE, and changes() under the same lock.
Delete_Unlocks(t) ==
    LET f == req[t].name
    IN  /\ pc[t] = "delete"
        /\ Holds(t)
        /\ functions' = [functions EXCEPT ![f] = Null]
        /\ changes' = IF Registered(f) THEN 1 ELSE 0
        /\ lock' = Null
        /\ Move(t, "changes", [req[t] EXCEPT !.deleted = Registered(f)])
        /\ UNCHANGED <<rows, last_insert_id, pool, requests, answered>>

Delete(t) ==
    LET f == req[t].name
    IN  /\ pc[t] = "delete"
        /\ Holds(t)
        /\ functions' = [functions EXCEPT ![f] = Null]
        /\ changes' = IF Registered(f) THEN 1 ELSE 0
        /\ Move(t, "changes", [req[t] EXCEPT !.deleted = Registered(f)])
        /\ UNCHANGED <<rows, lock, last_insert_id, pool, requests, answered>>

ReadChanges(t) ==
    /\ pc[t] = "changes"
    /\ lock' = Null
    /\ Move(t, IF changes > 0 THEN "terminate" ELSE "reply",
            [req[t] EXCEPT !.removed = changes > 0])
    /\ UNCHANGED <<functions, rows, changes, last_insert_id, pool, requests, answered>>

\* The record of thread t's invocation.
NewRow(t) == [function_name |-> req[t].name, input |-> req[t].input,
              status |-> req[t].status, cold_start |-> req[t].cold_start]

\* InvocationStore::record: the INSERT, and last_insert_id() under the same lock.
Insert_Unlocks(t) ==
    /\ pc[t] = "insert"
    /\ Holds(t)
    /\ rows' = Append(rows, NewRow(t))
    /\ changes' = 1
    /\ last_insert_id' = Len(rows) + 1
    /\ lock' = Null
    /\ Move(t, "rowid", req[t])
    /\ UNCHANGED <<functions, pool, requests, answered>>

Insert(t) ==
    /\ pc[t] = "insert"
    /\ Holds(t)
    /\ rows' = Append(rows, NewRow(t))
    /\ changes' = 1
    /\ last_insert_id' = Len(rows) + 1
    /\ Move(t, "rowid", req[t])
    /\ UNCHANGED <<functions, lock, pool, requests, answered>>

ReadRowId(t) ==
    /\ pc[t] = "rowid"
    /\ lock' = Null
    /\ Move(t, "reply", [req[t] EXCEPT !.id = last_insert_id])
    /\ UNCHANGED <<functions, rows, changes, last_insert_id, pool, requests, answered>>

\* InvocationStore::get.
Lookup(t) ==
    /\ pc[t] = "lookup"
    /\ Holds(t)
    /\ lock' = Null
    /\ Move(t, "reply", [req[t] EXCEPT !.found =
            IF req[t].id \in 1..Len(rows) THEN rows[req[t].id] ELSE Null])
    /\ UNCHANGED <<functions, rows, changes, last_insert_id, pool, requests, answered>>

-----------------------------------------------------------------------------
\* The runtime manager, seen from the handlers.

\* invoke() finds no runtime and a cold start succeeds ...
InvokeCold(t) ==
    LET f == req[t].name
    IN  /\ pc[t] = "invoke"
        /\ \E c \in ContainerIds :
            /\ Pool!Grant(f, c)
            /\ Move(t, "serve", [req[t] EXCEPT !.container = c, !.cold_start = TRUE])
        /\ UNCHANGED <<db, requests, answered>>

\* ... or fails, perhaps after it has used up a container.
StartFails_NoStatus(t) ==
    /\ pc[t] = "invoke"
    /\ lease[req[t].name] = Null
    /\ Move(t, "insert", req[t])
    /\ UNCHANGED <<db, pool, requests, answered>>

StartFails(t) ==
    /\ pc[t] = "invoke"
    /\ lease[req[t].name] = Null
    /\ \/ \E c \in ContainerIds \ spent : Pool!Waste(c)
       \/ UNCHANGED <<lease, spent>>
    /\ Move(t, "insert", [req[t] EXCEPT !.status = "infra_error"])
    /\ UNCHANGED <<db, requests, answered>>

InvokeWarm(t) ==
    LET f == req[t].name
    IN  /\ pc[t] = "invoke"
        /\ lease[f] # Null
        /\ Move(t, "serve", [req[t] EXCEPT !.container = lease[f], !.cold_start = FALSE])
        /\ UNCHANGED <<db, pool, requests, answered>>

FunctionReturns(t) ==
    /\ pc[t] = "serve"
    /\ \E status \in {"success", "error"} :
        Move(t, "insert", [req[t] EXCEPT !.status = status])
    /\ UNCHANGED <<db, pool, requests, answered>>

\* A timeout or a failed connection ends the lease, unless it already ended.
EndLease(t) ==
    IF lease[req[t].name] = req[t].container THEN Pool!End({req[t].name})
    ELSE UNCHANGED <<lease, spent>>

\* Without a timeout_ms there is no receive timeout.
FunctionTimesOut(t) ==
    /\ pc[t] = "serve"
    /\ req[t].spec.timeout_ms > 0
    /\ EndLease(t)
    /\ Move(t, "insert", [req[t] EXCEPT !.status = "timeout"])
    /\ UNCHANGED <<db, requests, answered>>

ConnectionFails(t) ==
    /\ pc[t] = "serve"
    /\ EndLease(t)
    /\ IF ~req[t].cold_start /\ req[t].attempt = 1
       THEN Move(t, "invoke", [req[t] EXCEPT !.attempt = 2])
       ELSE Move(t, "insert", [req[t] EXCEPT !.status = "infra_error"])
    /\ UNCHANGED <<db, requests, answered>>

\* DELETE goes on to terminate() once the row is gone.
Terminate(t) ==
    /\ pc[t] = "terminate"
    /\ Pool!End({req[t].name})
    /\ Move(t, "reply", req[t])
    /\ UNCHANGED <<db, requests, answered>>

\* A reaper pass over the runtimes that are idle for long enough.
Reap ==
    /\ \E F \in SUBSET {f \in Names : lease[f] # Null} : Pool!End(F)
    /\ UNCHANGED <<db, pc, req, requests, answered>>

-----------------------------------------------------------------------------
Reply(t) ==
    /\ pc[t] = "reply"
    /\ Move(t, "out", Null)
    /\ answered' = IF req[t].kind = "invoke" /\ req[t].id # 0
                   THEN answered \cup {<<req[t].id, req[t].input>>} ELSE answered
    /\ UNCHANGED <<db, pool, requests>>

\* The process ends, also when a statement throws: nobody catches it on the
\* request thread.  The tables survive; the connection and the runtimes do not.
Crash ==
    /\ lock' = Null
    /\ changes' = 0
    /\ last_insert_id' = 0
    /\ pc' = [t \in Threads |-> "out"]
    /\ req' = [t \in Threads |-> Null]
    /\ lease' = [f \in Names |-> Null]
    /\ UNCHANGED <<functions, rows, spent, requests, answered>>

Arrive(t) ==
    \/ \E s \in Specs : PostFunctions(t, s)
    \/ \E f \in Names : GetFunction(t, f) \/ DeleteFunction(t, f) \/ InvokeFunction(t, f)
    \/ \E id \in 1..MaxRequests : GetInvocation(t, id)
    \/ Refuse(t)

Query(t) == Upsert(t) \/ Select(t) \/ Delete(t) \/ ReadChanges(t)
            \/ Insert(t) \/ ReadRowId(t) \/ Lookup(t)

Manage(t) == InvokeCold(t) \/ StartFails(t) \/ InvokeWarm(t) \/ FunctionReturns(t)
             \/ FunctionTimesOut(t) \/ ConnectionFails(t) \/ Terminate(t)

Step ==
    \/ \E t \in Threads : Arrive(t) \/ Prepare(t) \/ Query(t) \/ Manage(t) \/ Reply(t)
    \/ Reap

Next == Step \/ Crash

Spec == Init /\ [][Next]_vars

StepSpec == Init /\ [][Step]_vars

\* Nothing bounds the call of a function deployed without a timeout.
Unbounded(t) == pc[t] = "serve" /\ req[t].spec.timeout_ms = 0

\* Statements end, and so do manager calls that a timeout bounds; a thread that
\* waits for the mutex gets it once nobody holds it for good.
Fairness ==
    \A t \in Threads : /\ WF_vars(Prepare(t))
                       /\ WF_vars(Query(t))
                       /\ WF_vars(~Unbounded(t) /\ Manage(t))
                       /\ WF_vars(Reply(t))

LiveSpec == Spec /\ Fairness

-----------------------------------------------------------------------------
\* Properties.

TypeOK ==
    /\ functions \in [Names -> Specs \cup {Null}]
    /\ rows \in Seq(Row)
    /\ lock \in (Threads \X Statements) \cup {Null}
    /\ changes \in {0, 1}
    /\ last_insert_id \in Nat
    /\ pc \in [Threads -> Locations]
    /\ req \in [Threads -> Request \cup {Null}]
    /\ lease \in [Names -> ContainerIds \cup {Null}]
    /\ spent \in SUBSET ContainerIds
    /\ requests \in 0..MaxRequests
    /\ answered \subseteq Nat \X (1..MaxRequests)

\* DELETE answers 204 exactly when its own statement removed the row, also
\* when deletes and deploys of the function overlap: changes() is read before
\* another statement can run on the connection.
VerdictIsOwn ==
    \A t \in Threads : pc[t] \in {"terminate", "reply"} => req[t].removed = req[t].deleted

\* An id handed to a caller of invoke names that caller's own record, and goes
\* on doing so after any number of later statements and restarts.
IdsStayValid ==
    \A a \in answered : a[1] \in 1..Len(rows) /\ rows[a[1]].input = a[2]

\* Every request is answered, or calls a function that has no timeout: no
\* handler waits for a mutex it holds itself, as register_function would if its
\* first statement outlived the call of get(), and a call that never returns
\* keeps no other request waiting.
HandlersReply ==
    \A t \in Threads : (pc[t] # "out") ~> (pc[t] = "out" \/ Unbounded(t))

\* The operation a handler has called or, once its statement has been stepped,
\* what the connection will tell it or has told it.
Op(t) ==
    CASE pc[t] = "out" -> Null
      [] pc[t] = "reply" /\ req[t].kind = "refused" -> Null
      [] pc[t] = "upsert" -> <<"register", req[t].deployed>>
      [] pc[t] = "select" -> <<"get", req[t].name>>
      [] pc[t] = "delete" -> <<"remove", req[t].name>>
      [] pc[t] = "insert" -> <<"record", NewRow(t)>>
      [] pc[t] = "lookup" -> <<"lookup", req[t].id>>
      [] pc[t] = "changes" -> <<"removed", changes > 0>>
      [] pc[t] = "rowid" -> <<"id", last_insert_id>>
      [] pc[t] \in {"terminate", "reply"} /\ req[t].kind = "delete" -> <<"removed", req[t].removed>>
      [] pc[t] = "reply" /\ req[t].kind = "lookup" -> <<"found", req[t].found>>
      [] pc[t] = "reply" /\ req[t].kind = "invoke" /\ req[t].id # 0 -> <<"id", req[t].id>>
      [] OTHER -> <<"got", req[t].spec>>

Store == INSTANCE AtomicStore WITH
            Rows <- Row, Ids <- 1..MaxRequests, op <- [t \in Threads |-> Op(t)]

\* The stores are atomic to every handler although one operation is several
\* steps on a connection whose counters all threads share, and crashes come
\* between them.
ImplementsStore == Store!Spec

-----------------------------------------------------------------------------
\* The inductive invariant behind VerdictIsOwn and IdsStayValid.

\* A statement that has been stepped and not yet destroyed has the lock.
LockInv(t) ==
    /\ pc[t] = "changes" => lock = <<t, "delete">>
    /\ pc[t] = "rowid" => lock = <<t, "insert">>

\* What a handler knows where it is.
HandlerInv(t) ==
    /\ req[t] # Null
    /\ req[t].kind = "deploy" => /\ pc[t] \in {"upsert", "select", "reply"}
                                /\ req[t].deployed \in Specs
                                /\ req[t].deployed.name = req[t].name
    /\ req[t].kind = "get" => pc[t] \in {"select", "reply"}
    /\ req[t].kind = "delete" => pc[t] \in {"delete", "changes", "terminate", "reply"}
    /\ req[t].kind = "invoke" => pc[t] \in {"select", "invoke", "serve", "insert", "rowid", "reply"}
    /\ req[t].kind = "lookup" => pc[t] \in {"lookup", "reply"} /\ req[t].id \in 1..MaxRequests
    /\ req[t].kind = "refused" => pc[t] = "reply"
    /\ req[t].kind \notin {"lookup", "refused"} => req[t].name \in Names
    /\ pc[t] \in {"invoke", "serve"} => req[t].spec \in Specs
    /\ pc[t] = "insert" => req[t].status # "none"
    /\ pc[t] # "reply" /\ req[t].kind = "invoke" => req[t].id = 0

\* The connection's counters belong to the statement that holds the lock.
ConnectionInv(t) ==
    /\ pc[t] = "changes" => req[t].deleted = (changes > 0)
    /\ pc[t] # "changes" => req[t].removed = req[t].deleted
    /\ pc[t] = "rowid" => /\ last_insert_id \in 1..Len(rows)
                         /\ rows[last_insert_id].input = req[t].input
    /\ pc[t] = "reply" /\ req[t].kind = "invoke" /\ req[t].id # 0 =>
        req[t].id \in 1..Len(rows) /\ rows[req[t].id].input = req[t].input

ThreadInv(t) == LockInv(t) /\ (pc[t] # "out" => HandlerInv(t) /\ ConnectionInv(t))

StoreInv ==
    /\ TypeOK
    /\ \A t \in Threads : ThreadInv(t)
    /\ IdsStayValid

-----------------------------------------------------------------------------
\* What the documentation says and the code does not do.

\* docs/api.md: POST /functions answers "201 Created with the stored function
\* record".
RegisteredIsReturned ==
    \A t \in Threads :
        pc[t] = "reply" /\ req[t].kind = "deploy" => req[t].spec = req[t].deployed

\* docs/api.md: DELETE removes the function and its runtime "immediately, not
\* waiting for the idle timeout".  No runtime without a row once the handlers
\* of the function have returned.
DeletedHasNoRuntime ==
    \A f \in Names :
        /\ ~Registered(f)
        /\ \A t \in Threads : pc[t] = "out" \/ req[t].name # f
        => lease[f] = Null
=============================================================================
