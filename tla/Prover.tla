------------------------------- MODULE Prover -------------------------------
(***************************************************************************)
(* The goroutines of the worker's pool (executor/worker_pool.go) at their  *)
(* tasks, and the one prover they share: processTask parses the input,     *)
(* builds the tree and the witness, gets the compiled circuit of the       *)
(* tree's depth from the prover's cache or compiles it under the mutex     *)
(* (zkp/prover.go), and proves.                                            *)
(*                                                                         *)
(* groth16.Setup draws new keys every time: a proof can be checked only    *)
(* with the key pair it was made with.  How tasks reach the goroutines and *)
(* where results go is in WorkerNode.                                      *)
(***************************************************************************)
EXTENDS MerkleTree, FiniteSets

CONSTANTS Task, NoTask,
          Proc, NoProc,   \* goroutines of the pool
          MaxLeaves,      \* the most leaves of a task (1000 in the gateway)
          MaxMixed        \* up to so many leaves, one may be no field element

ASSUME ProverAssumption ==
  /\ NoProc \notin Proc /\ NoTask \notin Task
  /\ MaxLeaves \in Nat \ {0} /\ MaxMixed \in 0..MaxLeaves

\* The leaf that is not a field element, if there is one, and how it is not.
Mixed(n) ==
  {<<1, "field">>}
    \cup IF n <= MaxMixed THEN (1..n) \X {"big", "long", "text"} ELSE {}

\* What the gateway lets pass: an index within the leaves; it does not look
\* at the leaves themselves.  They differ, and one of them may not be a field
\* element.
Input ==
  UNION {{[leaves |-> n, index |-> k, mixed |-> m[1], size |-> m[2]] :
            k \in 0..n - 1, m \in Mixed(n)} : n \in 1..MaxLeaves}

Leaves(i) ==
  [k \in 1..i.leaves |-> Leaf(k, IF k = i.mixed THEN i.size ELSE "field")]

\* getCircuitCacheKey: the circuit's type, always the same, and its depth.
CacheKey(i) == Depth[i.leaves]

Key == {CacheKey(i) : i \in Input}

\* The inputs whose witness satisfies the circuit.
Provable == {i \in Input : AllHex(Leaves(i)) /\ ~Panics(Leaves(i))
                             /\ Proves(Leaves(i), i.index)}

VARIABLES
  input,      \* input[t]: what task t asks for; NoInput while it is queued
  outcome,    \* outcome[t]: the result of task t, or that there is none yet
  madeWith,   \* madeWith[t]: the key pair t's proof was made with
  compiled,   \* compiledCircuits: compiled[k] is a key pair, or 0
  setups,     \* setups[n]: the depth of the circuit key pair n was drawn for
  mutex,      \* the goroutine that holds p.mu
  pc,         \* where each goroutine is
  job,        \* its task
  keys,       \* the key pair it got
  crashed     \* the process has died of a panic

vars == <<input, outcome, madeWith, compiled, setups, mutex, pc, job, keys,
          crashed>>

taskVars == <<input, outcome, madeWith>>
cacheVars == <<compiled, setups, mutex>>

NoInput == [leaves |-> 0, index |-> 0, mixed |-> 0, size |-> "field"]

Outcome == {"none", "invalid", "setupFailed", "unsatisfied", "proved"}

TypeOK ==
  /\ input \in [Task -> Input \cup {NoInput}]
  /\ outcome \in [Task -> Outcome]
  /\ madeWith \in [Task -> Nat]
  /\ compiled \in [Key -> Nat]
  /\ setups \in Seq(Key)
  /\ mutex \in Proc \cup {NoProc}
  /\ pc \in [Proc -> {"idle", "parse", "load", "lock", "recheck", "compile",
                      "store", "prove"}]
  /\ job \in [Proc -> Task \cup {NoTask}]
  /\ keys \in [Proc -> Nat]
  /\ crashed \in BOOLEAN
  /\ \A p \in Proc :
       /\ pc[p] # "idle" => job[p] \in Task /\ input[job[p]] \in Input
       /\ mutex = p <=> pc[p] \in {"recheck", "compile", "store"}

Init ==
  /\ input = [t \in Task |-> NoInput]
  /\ outcome = [t \in Task |-> "none"]
  /\ madeWith = [t \in Task |-> 0]
  /\ compiled = [k \in Key |-> 0]
  /\ setups = <<>>
  /\ mutex = NoProc
  /\ pc = [p \in Proc |-> "idle"]
  /\ job = [p \in Proc |-> NoTask]
  /\ keys = [p \in Proc |-> 0]
  /\ crashed = FALSE

KeyOf(p) == CacheKey(input[job[p]])

At(p, here) == ~crashed /\ pc[p] = here

GoTo(p, there) == pc' = [pc EXCEPT ![p] = there]

\* The task gets its result, and the goroutine turns to the next one.
Finish(p, result) ==
  /\ outcome' = [outcome EXCEPT ![job[p]] = result]
  /\ GoTo(p, "idle")
  /\ job' = [job EXCEPT ![p] = NoTask]
  /\ keys' = [keys EXCEPT ![p] = 0]

-----------------------------------------------------------------------------
(* WorkerPool.worker and processTask *)

Take(p, t) ==
  /\ At(p, "idle") /\ input[t] = NoInput
  /\ \E i \in Input : input' = [input EXCEPT ![t] = i]
  /\ job' = [job EXCEPT ![p] = t]
  /\ GoTo(p, "parse")
  /\ UNCHANGED <<outcome, madeWith, cacheVars, keys, crashed>>

\* parseMerkleProofTask.  A panic in a goroutine of the pool is recovered by
\* nobody.
ParseMerkleProofTask(p) ==
  /\ At(p, "parse")
  /\ LET leaves == Leaves(input[job[p]]) IN
     \/ /\ ~AllHex(leaves)
        /\ Finish(p, "invalid")
        /\ UNCHANGED crashed
     \/ /\ AllHex(leaves) /\ Panics(leaves)
        /\ crashed' = TRUE
        /\ UNCHANGED <<outcome, pc, job, keys>>
     \/ /\ AllHex(leaves) /\ ~Panics(leaves)
        /\ GoTo(p, "load")
        /\ UNCHANGED <<outcome, job, keys, crashed>>
  /\ UNCHANGED <<input, madeWith, cacheVars>>

-----------------------------------------------------------------------------
(* getOrCompileCircuit *)

\* sync.Map's Load, without the mutex.
LoadCircuit(p) ==
  /\ At(p, "load")
  /\ keys' = [keys EXCEPT ![p] = compiled[KeyOf(p)]]
  /\ GoTo(p, IF compiled[KeyOf(p)] = 0 THEN "lock" ELSE "prove")
  /\ UNCHANGED <<taskVars, cacheVars, job, crashed>>

Lock(p) ==
  /\ At(p, "lock") /\ mutex = NoProc
  /\ mutex' = p
  /\ GoTo(p, "recheck")
  /\ UNCHANGED <<taskVars, compiled, setups, job, keys, crashed>>

RecheckNothing(p) ==   \* mutant: no second look under the mutex
  /\ At(p, "recheck")
  /\ GoTo(p, "compile")
  /\ UNCHANGED <<taskVars, cacheVars, job, keys, crashed>>

\* Someone may have compiled the circuit while this goroutine waited.
Recheck(p) ==
  /\ At(p, "recheck")
  /\ keys' = [keys EXCEPT ![p] = compiled[KeyOf(p)]]
  /\ IF compiled[KeyOf(p)] = 0 THEN GoTo(p, "compile") /\ UNCHANGED mutex
                               ELSE GoTo(p, "prove") /\ mutex' = NoProc
  /\ UNCHANGED <<taskVars, compiled, setups, job, crashed>>

CompileHoldingOn(p) ==   \* mutant: an error returns without the unlock
  /\ At(p, "compile")
  /\ \/ /\ setups' = Append(setups, Depth[input[job[p]].leaves])
        /\ keys' = [keys EXCEPT ![p] = Len(setups) + 1]
        /\ GoTo(p, "store")
        /\ UNCHANGED <<outcome, job>>
     \/ /\ Finish(p, "setupFailed")
        /\ UNCHANGED setups
  /\ UNCHANGED <<input, madeWith, compiled, mutex, crashed>>

\* Compile and Setup, either of which may return an error.
Compile(p) ==
  /\ At(p, "compile")
  /\ \/ /\ setups' = Append(setups, Depth[input[job[p]].leaves])
        /\ keys' = [keys EXCEPT ![p] = Len(setups) + 1]
        /\ GoTo(p, "store")
        /\ UNCHANGED <<outcome, job, mutex>>
     \/ /\ Finish(p, "setupFailed")
        /\ mutex' = NoProc
        /\ UNCHANGED setups
  /\ UNCHANGED <<input, madeWith, compiled, crashed>>

Store(p) ==
  /\ At(p, "store")
  /\ compiled' = [compiled EXCEPT ![KeyOf(p)] = keys[p]]
  /\ mutex' = NoProc
  /\ GoTo(p, "prove")
  /\ UNCHANGED <<taskVars, setups, job, keys, crashed>>

-----------------------------------------------------------------------------
\* groth16.Prove fails when the witness does not satisfy the circuit, or is
\* one for a circuit of another depth.
Prove(p) ==
  /\ At(p, "prove")
  /\ LET t == job[p] IN
     IF input[t] \in Provable /\ setups[keys[p]] = Depth[input[t].leaves]
     THEN /\ Finish(p, "proved")
          /\ madeWith' = [madeWith EXCEPT ![t] = keys[p]]
     ELSE Finish(p, "unsatisfied") /\ UNCHANGED madeWith
  /\ UNCHANGED <<input, cacheVars, crashed>>

Step(p) ==
  \/ \E t \in Task : Take(p, t)
  \/ ParseMerkleProofTask(p) \/ LoadCircuit(p) \/ Lock(p) \/ Recheck(p)
  \/ Compile(p) \/ Store(p) \/ Prove(p)

Next == \E p \in Proc : Step(p)

Spec == Init /\ [][Next]_vars

\* The runtime schedules every goroutine; a mutex that is free again and
\* again is handed to each of those who wait for it.
FairSpec == Spec /\ \A p \in Proc : WF_vars(Step(p)) /\ SF_vars(Lock(p))

-----------------------------------------------------------------------------
(* Properties *)

\* All proofs of one depth are made with one key pair, drawn for a circuit of
\* that depth, however goroutines that miss the cache at the same time
\* overlap: nobody is given keys another Setup has replaced.
OneKeyPairPerCircuit ==
  /\ \A t \in Task : outcome[t] = "proved" =>
       /\ madeWith[t] \in DOMAIN setups
       /\ setups[madeWith[t]] = Depth[input[t].leaves]
  /\ \A t, u \in Task :
       /\ outcome[t] = "proved" /\ outcome[u] = "proved"
       /\ Depth[input[t].leaves] = Depth[input[u].leaves]
       => madeWith[t] = madeWith[u]

\* What is proved is about the tree over the leaves as they were submitted:
\* the root in the public input is that of the reference definition.
RootIsReference ==
  {i \in Provable : Last(NewMerkleTree(Leaves(i)))
                      = ReferenceNode(Leaves(i))[Depth[i.leaves]][0]}

ProvedRootIsReference ==
  \A t \in Task : outcome[t] = "proved" => input[t] \in RootIsReference

\* Which valid inputs end without a proof: exactly those whose leaf has an
\* ancestor without a neighbour above the level of the leaves, and those
\* where the leaf or the one beside it is not below the modulus.
Regular ==
  {i \in Input : /\ ~HasUnpairedAncestor(i.leaves, i.index)
                 /\ i.leaves = 1 \/ PairInField(Leaves(i), i.index)}

UnsatisfiedExactly ==
  \A t \in Task : /\ outcome[t] = "proved" => input[t] \in Regular
                  /\ outcome[t] = "unsatisfied" => input[t] \notin Regular

\* Whatever task a goroutine takes it comes to a result for it, unless some
\* task has a leaf of more than 32 bytes, which ends the process.
EveryTaskEnds ==
  \A t \in Task : input[t] # NoInput
                    ~> outcome[t] # "none"
                         \/ (crashed /\ \E u \in Task : input[u].size = "long")

\* factory.go:74, "Final hash must equal the public root": it does for the
\* path of every leaf, at least of field elements.  The code does not do
\* this, see SiblingIndex.
EveryLeafProvable ==
  \A t \in Task : outcome[t] = "unsatisfied" => input[t].size # "field"
=============================================================================
