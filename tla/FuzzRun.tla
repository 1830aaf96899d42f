------------------------------ MODULE FuzzRun ------------------------------
(***************************************************************************)
(* The Celery task run_fuzzer over one upload: the private workspace, the  *)
(* tests generated from the contracts in it, the one forge process that    *)
(* compiles and runs them all, and what is kept of its output.             *)
(*                                                                         *)
(* A name is the sequence of its parts between underscores, since the      *)
(* engine takes test names apart at them.                                  *)
(***************************************************************************)
EXTENDS UploadDirectory, Selection

CONSTANTS
    Source,       \* contract files of the upload
    Uploads,      \* the uploads considered: the contracts each file declares
    Template,     \* the example contract "forge init" adds
    Example       \* counterexamples, as forge prints them

\* A contract as the scanner and the compiler see it.
Contract ==
    [name : Seq(STRING),
     abstract : BOOLEAN,
     ctor : {"none", "scalars", "other"},   \* kinds of constructor parameters
     members : SUBSET {"totalSupply", "balanceOf", "balances", "transfer", "other"},
     payout : Seq(STRING)]                  \* its first one-uint function, or none

\* A test that forge does not report as failed: it passes, its contract's setUp
\* fails in its place, or forge says nothing of it.
Silent == {"pass", "setUp", "unjudged"}

\* A test that fails, with an example or without.
Failing == Example \cup {"bare"}

ASSUME FuzzAssumption ==
    /\ IsFiniteSet(Source)
    /\ Uploads \subseteq [Source -> Seq(Contract)]
    /\ Template \in Contract
    /\ Silent \cap Failing = {}

VARIABLES
    text,         \* what each file declares
    fuzz,         \* where the task is
    workspace,    \* the temporary directory: none, created, copied
    imports,      \* contract files of the workspace, scanned in this order
    tests,        \* the tests generated, in the same order
    verdict,      \* how forge judges each test
    output,       \* what is kept of forge's output: its failure lines
    fuzzStored    \* the fuzzing_results row

fuzzVars == <<text, fuzz, workspace, imports, tests, verdict, output, fuzzStored>>

NoOutput == [status |-> "none", lines |-> <<>>, whole |-> TRUE]
NoFuzzRow == [status |-> "no_row", failures |-> <<>>]

FuzzInit ==
    /\ text \in Uploads
    /\ fuzz = "start" /\ workspace = "none"
    /\ imports = <<>> /\ tests = <<>>
    /\ verdict = <<>> /\ output = NoOutput
    /\ fuzzStored = NoFuzzRow

-----------------------------------------------------------------------------
(* The workspace *)

FuzzGoes(from, to) == fuzz = from /\ fuzz' = to

\* Without a directory there is nothing to do, and the row says missing_dir.
MakeWorkspace ==
    /\ IF onDisk
       THEN FuzzGoes("start", "copy") /\ workspace' = "created" /\ output' = output
       ELSE FuzzGoes("start", "store") /\ workspace' = workspace
            /\ output' = [NoOutput EXCEPT !.status = "missing_dir"]
    /\ UNCHANGED <<text, imports, tests, verdict, fuzzStored, onDisk>>

CopyUpload ==
    /\ FuzzGoes("copy", "init")
    /\ onDisk
    /\ workspace' = "copied"
    /\ UNCHANGED <<text, imports, tests, verdict, output, fuzzStored, onDisk>>

\* copytree raises outside of the try block: the workspace stays behind, with
\* what was copied so far.
CopyFails ==
    /\ FuzzGoes("copy", "failed")
    /\ UNCHANGED <<text, workspace, imports, tests, verdict, output, fuzzStored, onDisk>>

\* forge init adds its example, unless the upload has a foundry.toml, or it fails
\* or takes too long, which is only logged.  Then the files are listed, in the
\* order of os.walk.
ListContracts ==
    /\ FuzzGoes("init", "generate")
    /\ \E order \in SetToSeqs(Source), added \in {<<>>, <<<<Template>>>>} :
         /\ imports' = [i \in 1..Len(order) |-> text[order[i]]] \o added
    /\ UNCHANGED <<text, workspace, tests, verdict, output, fuzzStored, onDisk>>

-----------------------------------------------------------------------------
(* The generated tests: one for each file with a derivable invariant *)

\* _parse_contracts takes the first contract of a file for all of it, and
\* extract_functions the functions of all.
Seen(t) == UNION {t[i].members : i \in 1..Len(t)}
Payouts(t) == Sublist([i \in 1..Len(t) |-> t[i].payout], {i \in 1..Len(t) : t[i].payout # <<>>})
HasFunctions(t) == Payouts(t) # <<>> \/ Seen(t) \ {"balances"} # {}
Parsed(t) == t # <<>> /\ ~t[1].abstract /\ HasFunctions(t)

\* The first constructor of the file, whose ever it is.
Constructor(t) ==
    LET own == Sublist(t, {i \in 1..Len(t) : t[i].ctor # "none"})
    IN  IF own = <<>> THEN "none" ELSE own[1].ctor

Getter(t) == IF "balanceOf" \in Seen(t) THEN "balanceOf" ELSE "balances"

\* _conservation_test does not look for totalSupply.
Derivable(t) ==
    /\ Constructor(t) # "other"
    /\ Getter(t) \in Seen(t)
    /\ "transfer" \in Seen(t)
    /\ Payouts(t) # <<>>

TestOf(t) ==
    [contract |-> t[1].name, getter |-> Getter(t), payout |-> Payouts(t)[1],
     name |-> <<"testFuzz">> \o t[1].name \o <<"Conservation">> \o Payouts(t)[1]]

Imported == Sublist(imports, {i \in 1..Len(imports) : Parsed(imports[i])})

Generated == Sublist(Imported, {i \in 1..Len(Imported) : Derivable(Imported[i])})

GenerateTests ==
    /\ fuzz = "generate"
    /\ tests' = [i \in 1..Len(Generated) |-> TestOf(Generated[i])]
    /\ fuzz' = IF Generated = <<>> THEN "clean_up" ELSE "forge"
    /\ output' = IF Generated = <<>> THEN [NoOutput EXCEPT !.status = "no_invariant_derivable"]
                 ELSE output
    /\ UNCHANGED <<text, workspace, imports, verdict, fuzzStored, onDisk>>

-----------------------------------------------------------------------------
(* forge *)

\* One file holds all the tests and imports every parsed file: it compiles when
\* no two of the files declare the same name, and each test calls what its own
\* contract has.
Declared(t) == {t[i].name : i \in 1..Len(t)}

Fits(t) ==
    /\ {"totalSupply", "transfer", Getter(t)} \subseteq t[1].members
    /\ t[1].payout = Payouts(t)[1]
    /\ t[1].ctor = Constructor(t)

Compiles ==
    /\ \A i, j \in 1..Len(Imported) : i # j => Declared(Imported[i]) \cap Declared(Imported[j]) = {}
    /\ \A i \in 1..Len(Imported) : Derivable(Imported[i]) => Fits(Imported[i])

\* forge is missing, takes too long, or prints an error of the compiler and no
\* failure.
ForgeStops ==
    /\ FuzzGoes("forge", "clean_up")
    /\ \E status \in {"timeout", "forge_missing", "compile_error"} :
         output' = [NoOutput EXCEPT !.status = status]
    /\ UNCHANGED <<text, workspace, imports, tests, verdict, fuzzStored, onDisk>>

Line(v, i) == [test |-> tests[i].name, example |-> v[i]]

\* Every failing test appears in the summary of its suite and again in the list
\* of failing tests.  A line about setUp names no test.
FailureLines(v) ==
    LET named == Sublist([i \in 1..Len(tests) |-> Line(v, i)],
                         {i \in 1..Len(tests) : v[i] \notin Silent})
    IN  named \o named

\* Any output is ok in which there is a failure, or no error of the compiler: also
\* that of a forge which broke off before it judged a test, or could not compile
\* them and says so otherwise, or behind the cut.  The output is cut at
\* MAX_RAW_OUTPUT characters, wherever that is.
ForgeRuns ==
    /\ FuzzGoes("forge", "clean_up")
    /\ \E v \in [1..Len(tests) -> Failing \cup Silent] :
         /\ ~Compiles => \A i \in 1..Len(tests) : v[i] = "unjudged"
         /\ verdict' = v
         /\ \E kept \in 0..Len(FailureLines(v)) :
              output' = [status |-> "ok", lines |-> SubSeq(FailureLines(v), 1, kept),
                         whole |-> kept = Len(FailureLines(v))]
    /\ UNCHANGED <<text, workspace, imports, tests, fuzzStored, onDisk>>

\* The finally block: rmtree ignores its errors, so the workspace may stay.
RemoveWorkspace == workspace' \in {"none", workspace}

CleanUp ==
    /\ FuzzGoes("clean_up", "store")
    /\ RemoveWorkspace
    /\ UNCHANGED <<text, imports, tests, verdict, output, fuzzStored, onDisk>>

\* Any exception after the copy passes through the same block.
EngineRaises ==
    /\ fuzz \in {"init", "generate", "forge"}
    /\ fuzz' = "failed"
    /\ RemoveWorkspace
    /\ UNCHANGED <<text, imports, tests, verdict, output, fuzzStored, onDisk>>

-----------------------------------------------------------------------------
(* What is stored *)

\* Mutant: a counterexample is taken for the test.
SameExample(a, b) == a.example = b.example

Repeats(a, b) == a = b

NewLines(lines) ==
    Sublist(lines, {i \in 1..Len(lines) : \A j \in 1..(i - 1) : ~Repeats(lines[j], lines[i])})

\* A failure's contract and function are the second and the fourth part of the
\* test's name; "bare" stands for no counterexample.
FailureOf(line) ==
    [test |-> line.test, counterexample |-> line.example,
     contract |-> line.test[2], function |-> line.test[4]]

ParseFailures ==
    LET lines == NewLines(output.lines)
    IN  IF output.status = "ok" THEN [i \in 1..Len(lines) |-> FailureOf(lines[i])] ELSE <<>>

StoreFailures ==
    /\ FuzzGoes("store", "done")
    /\ fuzzStored' = [status |-> output.status, failures |-> ParseFailures]
    /\ UNCHANGED <<text, workspace, imports, tests, verdict, output, onDisk>>

StoreFails ==
    /\ FuzzGoes("store", "failed")
    /\ UNCHANGED <<text, workspace, imports, tests, verdict, output, fuzzStored, onDisk>>

FuzzStep ==
    \/ MakeWorkspace \/ CopyUpload \/ CopyFails \/ ListContracts
    \/ GenerateTests \/ ForgeStops \/ ForgeRuns
    \/ CleanUp \/ EngineRaises \/ StoreFailures \/ StoreFails

-----------------------------------------------------------------------------
(* Properties *)

\* The tests that forge reports as failed.
FailedTests == {i \in 1..Len(tests) : verdict[i] \notin Silent}

\* Failure f of the row is about test i.
Names(f, i) ==
    /\ f.test = tests[i].name /\ f.counterexample = verdict[i]
    /\ Len(tests[i].contract) = 1 => f.contract = tests[i].contract[1]
    /\ Len(tests[i].contract) = 1 /\ Len(tests[i].payout) = 1 => f.function = tests[i].payout[1]

\* Each failure in the row is about a failed test of its own, though forge
\* prints it twice, and names it, with the counterexample forge found for it, and
\* with its contract and its payout function as far as their names have no
\* underscore; and the row names all the tests that failed unless the output was
\* cut (_parse_failures).
FailuresAreFaithful ==
    fuzzStored.status = "ok" =>
        LET failures == fuzzStored.failures
        IN  /\ \E about \in [1..Len(failures) -> FailedTests] :
                 /\ \A k, l \in 1..Len(failures) : about[k] = about[l] => k = l
                 /\ \A k \in 1..Len(failures) : Names(failures[k], about[k])
            /\ output.whole =>
                 {failures[k].test : k \in 1..Len(failures)} = {tests[i].name : i \in FailedTests}
=============================================================================
