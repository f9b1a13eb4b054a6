------------------------------ MODULE ApiClient ------------------------------
(***************************************************************************)
(* The interface's HTTP client: requestJson of api/client.ts.              *)
(*                                                                         *)
(* A GET is answered from the responses of the last seconds, else by the   *)
(* request in flight for its path, else by a new one.  A mutation that     *)
(* succeeds forgets both and starts a new generation: a GET of an older    *)
(* generation still answers its callers, but is not remembered.            *)
(***************************************************************************)
EXTENDS Integers, Sequences

CONSTANTS
    Scopes,      \* runs in sessions
    Objectives,
    None

\* The paths a case is asked for with.
Paths == [scope : Scopes, objective : Objectives \cup {None}]

VARIABLES
    responses,   \* getResponseCache: the answer remembered for a path
    generation,  \* apiCacheGeneration
    requests     \* GETs under way

apiVars == <<responses, generation, requests>>

ApiInit ==
    /\ responses = [p \in Paths |-> None]
    /\ generation = 0 /\ requests = {}

Request(path, answer) == [path |-> path, generation |-> generation, answer |-> answer]

\* inflightGetRequests: the requests of this generation, at most one for a path.
Inflight(path) == {r \in requests : r.path = path /\ r.generation = generation}

Get(path) ==
    /\ requests' = IF responses[path] # None \/ Inflight(path) # {} THEN requests
                   ELSE requests \cup {Request(path, None)}
    /\ UNCHANGED <<responses, generation>>

ServerAnswers(r, answer) ==
    /\ r.answer = None
    /\ requests' = (requests \ {r}) \cup {[r EXCEPT !.answer = answer]}
    /\ UNCHANGED <<responses, generation>>

Remembered(r) == r.generation = generation

ReceiveGet(r) ==
    /\ r.answer # None
    /\ requests' = requests \ {r}
    /\ responses' = IF Remembered(r) THEN [responses EXCEPT ![r.path] = r.answer]
                    ELSE responses
    /\ UNCHANGED generation

\* A refusal, a network error or the timeout: nothing is remembered.
FailGet(r) ==
    /\ requests' = requests \ {r}
    /\ UNCHANGED <<responses, generation>>

Expire(path) ==
    /\ responses[path] # None
    /\ responses' = [responses EXCEPT ![path] = None]
    /\ UNCHANGED <<generation, requests>>

\* Variant: what is remembered stays so.
OnlyNextGeneration ==
    /\ generation' = generation + 1
    /\ UNCHANGED <<responses, requests>>

\* invalidateApiCache, called when a mutation was answered with success.
Forget ==
    /\ responses' = [p \in Paths |-> None]
    /\ generation' = generation + 1
    /\ UNCHANGED requests

=============================================================================
