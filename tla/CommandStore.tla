----------------------------- MODULE CommandStore ---------------------------
(***************************************************************************)
(* protocolcommandstore.Store: the registered handlers and middlewares     *)
(* under one RWMutex.  Execute holds the read lock while the handler runs, *)
(* which may take as long as a command of its own; RegisterHandler and     *)
(* RegisterMiddleware take the write lock.  The lock is Go's: a waiting    *)
(* writer holds back new readers, and on Unlock the readers that were held *)
(* back go first.                                                          *)
(***************************************************************************)
EXTENDS Naturals, Sequences

CONSTANTS
    Goroutine,  \* the goroutines that execute commands
    Registrar,  \* calls of RegisterHandler or RegisterMiddleware
    NoOne,      \* no writer
    ID,         \* command IDs
    Handler,    \* handlers
    NoHandler,  \* a command that is not registered
    registers,  \* registers[r]: what r registers: [ID, Handler] or [middleware]
    InitialCommands \* the handlers registered before the server starts

ASSUME StoreAssumption ==
    /\ NoOne \notin Registrar
    /\ NoHandler \notin Handler
    /\ InitialCommands \in [ID -> Handler \cup {NoHandler}]
    /\ \A r \in Registrar :
           \/ DOMAIN registers[r] = {"middleware"}
           \/ registers[r] \in [ID : ID, Handler : Handler]

VARIABLES
    commands,     \* Store.commands
    middlewares,  \* Store.middlewares
    readers,      \* the goroutines that hold the read lock
    queued,       \* the goroutines that a writer holds back in RLock
    writer,       \* the call that is in Lock, or holds the write lock
    registrar     \* the progress and the result of each registration

lockVars == <<readers, queued, writer>>
storeVars == <<commands, middlewares, lockVars, registrar>>

StoreInit ==
    /\ commands = InitialCommands
    /\ middlewares = <<>>
    /\ readers = {}
    /\ queued = {}
    /\ writer = NoOne
    /\ registrar = [r \in Registrar |-> "idle"]

-----------------------------------------------------------------------------
(* The read lock, taken by Execute.                                        *)

RLock(g) ==
    /\ IF writer = NoOne
       THEN readers' = readers \cup {g} /\ UNCHANGED queued
       ELSE queued' = queued \cup {g} /\ UNCHANGED readers
    /\ UNCHANGED <<commands, middlewares, writer, registrar>>

RUnlock(g) ==
    /\ readers' = readers \ {g}
    /\ UNCHANGED <<commands, middlewares, queued, writer, registrar>>

-----------------------------------------------------------------------------
(* The write lock.                                                         *)

\* Lock: one writer at a time announces itself, and new readers wait from then on.
Announce(r) ==
    /\ registrar[r] = "idle"
    /\ writer = NoOne
    /\ writer' = r
    /\ registrar' = [registrar EXCEPT ![r] = "locking"]
    /\ UNCHANGED <<commands, middlewares, readers, queued>>

\* It holds the lock once the readers that were there before it are gone; after Unlock
\* the readers that were held back hold it.
Exclusively(r) ==
    /\ writer = r
    /\ readers = {}
    /\ readers' = queued
    /\ queued' = {}
    /\ writer' = NoOne

\* "Returns an error if the command is already registered".
RegisterHandler(r) ==
    LET id == registers[r].ID
    IN  /\ registrar[r] = "locking"
        /\ "ID" \in DOMAIN registers[r]
        /\ Exclusively(r)
        /\ IF commands[id] = NoHandler
           THEN /\ commands' = [commands EXCEPT ![id] = registers[r].Handler]
                /\ registrar' = [registrar EXCEPT ![r] = "registered"]
           ELSE /\ registrar' = [registrar EXCEPT ![r] = "already registered"]
                /\ UNCHANGED commands
        /\ UNCHANGED middlewares

RegisterMiddleware(r) ==
    /\ registrar[r] = "locking"
    /\ "middleware" \in DOMAIN registers[r]
    /\ Exclusively(r)
    /\ middlewares' = Append(middlewares, registers[r].middleware)
    /\ registrar' = [registrar EXCEPT ![r] = "registered"]
    /\ UNCHANGED commands

Registration(r) == Announce(r) \/ RegisterHandler(r) \/ RegisterMiddleware(r)

-----------------------------------------------------------------------------
(* The types of the store, whoever uses it.                                *)

StoreTypeOK ==
    /\ commands \in [ID -> Handler \cup {NoHandler}]
    /\ middlewares \in Seq({registers[r].middleware :
           r \in {s \in Registrar : "middleware" \in DOMAIN registers[s]}})
    /\ readers \subseteq Goroutine
    /\ queued \subseteq Goroutine
    /\ writer \in Registrar \cup {NoOne}
    /\ registrar \in [Registrar -> {"idle", "locking", "registered", "already registered"}]

=============================================================================
