------------------------------- MODULE HostIo -------------------------------
(***************************************************************************)
(* The I/O requests of the System X kernel (system-x/kernel/io_manager):   *)
(* a process that reads or writes a block of a host file queues a request  *)
(* and sleeps; the request thread hands it to the host; the host completes *)
(* requests in any order; the completion thread wakes the process.         *)
(*                                                                         *)
(* Each of these steps runs under the machine lock. Read and Write of a    *)
(* host file hold it from before the request is queued until Sleep has put *)
(* the process to sleep. The host gives its answers to the completion port *)
(* that the host file was associated with when it was opened.              *)
(***************************************************************************)
EXTENDS Naturals, Sequences, FiniteSets

CONSTANTS
    Procs,
    Files,        \* identifiers of host files, not yet opened on the host
    MaxRequests,  \* how many requests are made: a bound of the model
    Addresses,    \* where the host data of requests under way (overlapped) can be
    NoRequest

Requests == 1 .. MaxRequests

ASSUME HostIoAssumption ==
    /\ MaxRequests \in Nat
    /\ NoRequest \notin Requests

VARIABLES
    pc, waitsFor,    \* of each process: where it is, and the request it made
    result,          \* what the last transfer of each process returned
    nextRequestId,
    fileOf,          \* of each request: its host file
    error,           \* requests with an error set
    requestMap,      \* the requests that exist
    requestQueue,
    overlappedMap,   \* the request at each address in use
    hostFiles,       \* the host files that the manager has
    opened, handle,  \* of each host file: the flag, and the handle with its port
    port,            \* "none", "created"
    requestThread, completionThread,
    atHost,          \* addresses that the host works on
    packets,         \* what it has put to the port: address and success
    performed        \* the requests whose transfer the host has done

processVars == <<pc, waitsFor, result>>
requestVars == <<nextRequestId, fileOf, error, requestMap, requestQueue, overlappedMap>>
fileVars == <<hostFiles, opened, handle>>
threadVars == <<port, requestThread, completionThread>>
hostVars == <<atHost, packets, performed>>
vars == <<processVars, requestVars, fileVars, threadVars, hostVars>>

TypeOK ==
    /\ pc \in [Procs -> {"running", "asleep", "woken"}]
    /\ waitsFor \in [Procs -> Requests \cup {NoRequest}]
    /\ result \in [Procs -> {"none", "success", "error"}]
    /\ nextRequestId \in 1 .. MaxRequests + 1
    /\ fileOf \in [Requests -> Files]
    /\ error \subseteq Requests
    /\ requestMap \subseteq Requests
    /\ requestQueue \in Seq(Requests)
    /\ overlappedMap \in [Addresses -> Requests \cup {NoRequest}]
    /\ hostFiles \subseteq Files
    /\ opened \in [Files -> BOOLEAN]
    /\ handle \in [Files -> {"none", "ofPort", "elsewhere"}]
    /\ port \in {"none", "created"}
    /\ requestThread \in {"running", "ended"}
    /\ completionThread \in {"starting", "running", "ended"}
    /\ atHost \subseteq Addresses
    /\ packets \subseteq Addresses \X BOOLEAN
    /\ performed \subseteq Requests

Init ==
    /\ pc = [p \in Procs |-> "running"]
    /\ waitsFor = [p \in Procs |-> NoRequest]
    /\ result = [p \in Procs |-> "none"]
    /\ nextRequestId = 1
    /\ fileOf \in {[r \in Requests |-> f] : f \in Files}
    /\ error = {} /\ requestMap = {} /\ requestQueue = <<>>
    /\ overlappedMap = [a \in Addresses |-> NoRequest]
    /\ hostFiles = Files
    /\ opened = [f \in Files |-> FALSE]
    /\ handle = [f \in Files |-> "none"]
    /\ port = "none" /\ requestThread = "running" /\ completionThread = "starting"
    /\ atHost = {} /\ packets = {} /\ performed = {}

-----------------------------------------------------------------------------
(* The processes.                                                          *)

\* HostFilesystemFile::Read and Write: the request is queued, the process sleeps.
Submit(p, f) ==
    /\ pc[p] = "running"
    /\ nextRequestId <= MaxRequests
    /\ fileOf' = [fileOf EXCEPT ![nextRequestId] = f]
    /\ requestMap' = requestMap \cup {nextRequestId}
    /\ requestQueue' = Append(requestQueue, nextRequestId)
    /\ nextRequestId' = nextRequestId + 1
    /\ waitsFor' = [waitsFor EXCEPT ![p] = nextRequestId]
    /\ pc' = [pc EXCEPT ![p] = "asleep"]
    /\ UNCHANGED <<result, error, overlappedMap, fileVars, threadVars, hostVars>>

\* The second half of Read and Write, after the sleep.
Outcome_Unchecked(r) == "success"
Outcome(r) == IF r \in error THEN "error" ELSE "success"

Return(p) ==
    /\ pc[p] = "woken"
    /\ result' = [result EXCEPT ![p] = Outcome(waitsFor[p])]
    /\ requestMap' = requestMap \ {waitsFor[p]}
    /\ waitsFor' = [waitsFor EXCEPT ![p] = NoRequest]
    /\ pc' = [pc EXCEPT ![p] = "running"]
    /\ UNCHANGED <<nextRequestId, fileOf, error, requestQueue, overlappedMap>>
    /\ UNCHANGED <<fileVars, threadVars, hostVars>>

\* CloseHostFile, of a file that a process shares with others that may use it.
CloseHostFile(f) ==
    /\ f \in hostFiles
    /\ hostFiles' = hostFiles \ {f}
    /\ UNCHANGED <<processVars, requestVars, opened, handle, threadVars, hostVars>>

Wakeup(r) == pc' = [p \in Procs |-> IF pc[p] = "asleep" /\ waitsFor[p] = r
                                    THEN "woken" ELSE pc[p]]

-----------------------------------------------------------------------------
(* The request thread. HandleRequest ends in one of four ways.             *)

NextRequest == Head(requestQueue)
Takes ==
    /\ requestThread = "running"
    /\ requestQueue # <<>>
    /\ requestQueue' = Tail(requestQueue)

\* A SystemError on the way: it is set in the request, whose process is woken.
Refused_NotWoken(r) == error' = error \cup {r} /\ UNCHANGED pc
Refused(r) == error' = error \cup {r} /\ Wakeup(r)

\* OpenHostFile, for the first request of a file. The flag is set before. It fails
\* without a handle, or with one if the file cannot be associated with the port; a file
\* opened before the completion thread has made its port gets a port of its own.
Opens(f, how) ==
    /\ opened' = [opened EXCEPT ![f] = TRUE]
    /\ handle' = [handle EXCEPT ![f] =
                     CASE opened[f] -> @
                       [] ~opened[f] /\ how = "fails" -> "none"
                       [] ~opened[f] /\ how = "unassociated" -> "elsewhere"
                       [] ~opened[f] /\ how = "opens" ->
                              IF port = "created" THEN "ofPort" ELSE "elsewhere"]

\* The host file is gone, or cannot be opened.
RefuseFile ==
    LET r == NextRequest
        f == fileOf[r]
    IN
    /\ Takes
    /\ Refused(r)
    /\ \/ f \notin hostFiles /\ UNCHANGED <<opened, handle>>
       \/ f \in hostFiles /\ ~opened[f] /\ \E how \in {"fails", "unassociated"} : Opens(f, how)
    /\ UNCHANGED <<waitsFor, result, nextRequestId, fileOf, requestMap, overlappedMap>>
    /\ UNCHANGED <<hostFiles, threadVars, hostVars>>

\* The request gets an address. The host takes it, or refuses it at once; then
\* the address stays in the map.
Issue(accepted) ==
    LET r == NextRequest
        f == fileOf[r]
    IN
    /\ Takes
    /\ f \in hostFiles
    /\ Opens(f, "opens")
    /\ accepted => handle'[f] # "none"
    /\ \E a \in Addresses :
        /\ overlappedMap[a] = NoRequest
        /\ overlappedMap' = [overlappedMap EXCEPT ![a] = r]
        /\ atHost' = IF accepted THEN atHost \cup {a} ELSE atHost
    /\ IF accepted THEN UNCHANGED <<error, pc>> ELSE Refused(r)
    /\ UNCHANGED <<waitsFor, result, nextRequestId, fileOf, requestMap>>
    /\ UNCHANGED <<hostFiles, threadVars, packets, performed>>

\* The path of a file to be truncated cannot be looked at: an error of the host's
\* library, which HandleRequest does not catch. It ends the thread, and the request
\* that was taken is nowhere any more.
RequestThreadEnds ==
    LET f == fileOf[NextRequest] IN
    /\ Takes
    /\ f \in hostFiles /\ ~opened[f]
    /\ opened' = [opened EXCEPT ![f] = TRUE]
    /\ requestThread' = "ended"
    /\ UNCHANGED <<processVars, nextRequestId, fileOf, error, requestMap, overlappedMap>>
    /\ UNCHANGED <<hostFiles, handle, port, completionThread, hostVars>>

HandleRequest ==
    \/ RefuseFile
    \/ \E accepted \in BOOLEAN : Issue(accepted)
    \/ RequestThreadEnds

-----------------------------------------------------------------------------
(* The host, and the completion thread.                                    *)

Associated(a) == handle[fileOf[overlappedMap[a]]] = "ofPort"

HostCompletes(a, success) ==
    /\ a \in atHost
    /\ atHost' = atHost \ {a}
    /\ packets' = IF Associated(a) THEN packets \cup {<<a, success>>} ELSE packets
    /\ performed' = IF success THEN performed \cup {overlappedMap[a]} ELSE performed
    /\ UNCHANGED <<processVars, requestVars, fileVars, threadVars>>

CreatePort ==
    /\ completionThread = "starting"
    /\ \/ port' = "created" /\ completionThread' = "running"
       \/ UNCHANGED port /\ completionThread' = "ended"
    /\ UNCHANGED requestThread
    /\ UNCHANGED <<processVars, requestVars, fileVars, hostVars>>

\* A packet of success: the request at its address is done.
RequestAt_First(a) == CHOOSE r \in requestMap : TRUE
RequestAt(a) == overlappedMap[a]

HandleCompletion(a) ==
    /\ completionThread = "running"
    /\ <<a, TRUE>> \in packets
    /\ packets' = packets \ {<<a, TRUE>>}
    /\ Wakeup(RequestAt(a))
    /\ overlappedMap' = [overlappedMap EXCEPT ![a] = NoRequest]
    /\ UNCHANGED <<waitsFor, result, nextRequestId, fileOf, error, requestMap, requestQueue>>
    /\ UNCHANGED <<fileVars, threadVars, atHost, performed>>

\* A packet of failure: the error is thrown, and the completion thread ends.
CompletionThreadEnds(a) ==
    /\ completionThread = "running"
    /\ <<a, FALSE>> \in packets
    /\ packets' = packets \ {<<a, FALSE>>}
    /\ completionThread' = "ended"
    /\ UNCHANGED <<processVars, requestVars, fileVars, port, requestThread, atHost, performed>>

-----------------------------------------------------------------------------
Next ==
    \/ \E p \in Procs : Return(p) \/ \E f \in Files : Submit(p, f)
    \/ \E f \in Files : CloseHostFile(f)
    \/ HandleRequest
    \/ \E a \in Addresses :
        \/ \E success \in BOOLEAN : HostCompletes(a, success)
        \/ HandleCompletion(a) \/ CompletionThreadEnds(a)
    \/ CreatePort

Spec == Init /\ [][Next]_vars

\* The threads run, and the host completes what it has taken.
FairSpec ==
    /\ Spec
    /\ WF_vars(HandleRequest)
    /\ WF_vars(CreatePort)
    /\ \A a \in Addresses :
        /\ WF_vars(\E success \in BOOLEAN : HostCompletes(a, success))
        /\ WF_vars(HandleCompletion(a) \/ CompletionThreadEnds(a))

-----------------------------------------------------------------------------
(* Properties.                                                             *)

Places(r) ==
    Cardinality({n \in DOMAIN requestQueue : requestQueue[n] = r})
    + Cardinality({a \in atHost : overlappedMap[a] = r})
    + Cardinality({x \in packets : overlappedMap[x[1]] = r})

\* The request nobody will answer: a thread that it still needs has ended, or the host
\* puts the answer to another port.
Unanswerable(r) ==
    \/ completionThread = "ended"
    \/ requestThread = "ended" /\ \A a \in Addresses : overlappedMap[a] # r
    \/ handle[fileOf[r]] = "elsewhere"

\* No lost wakeup: while a process sleeps its request exists, has no error, and is in one
\* place where somebody will come for it, unless nobody will ever answer it.
SleepersHaveReason ==
    \A p \in Procs : pc[p] = "asleep" =>
        LET r == waitsFor[p] IN
        /\ r \in requestMap \ error
        /\ \/ Places(r) = 1
           \/ Places(r) = 0 /\ Unanswerable(r)

\* The address of a request stays its own until its one answer has come from the
\* port: the host works at addresses in use only, and gives each of them one packet.
AddressesKept ==
    \A a \in Addresses :
        /\ a \in atHost \/ (\E success \in BOOLEAN : <<a, success>> \in packets)
              => overlappedMap[a] \in Requests
        /\ a \in atHost => \A success \in BOOLEAN : <<a, success>> \notin packets
        /\ ~(<<a, TRUE>> \in packets /\ <<a, FALSE>> \in packets)

Phase(p) ==
    CASE pc[p] = "running" -> "idle"
      [] pc[p] # "running" /\ waitsFor[p] \in performed -> "performed"
      [] pc[p] # "running" /\ waitsFor[p] \in error -> "refused"
      [] OTHER -> "asked"

Transfer == INSTANCE HostTransfer WITH phase <- [p \in Procs |-> Phase(p)]

\* Whatever the order in which the host completes, and however files are closed and
\* addresses used again meanwhile, a process goes on once its own transfer is over, and
\* succeeds only if the host did it.
ImplementsTransfer == Transfer!Spec

\* A process that waits for a transfer goes on, unless nobody will ever answer it.
Answered ==
    \A p \in Procs : \A r \in Requests :
        (pc[p] = "asleep" /\ waitsFor[p] = r) ~> (pc[p] # "asleep" \/ Unanswerable(r))
=============================================================================
