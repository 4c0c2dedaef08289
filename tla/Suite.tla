-------------------------------- MODULE Suite --------------------------------
(***************************************************************************)
(* main(): the benchmarks one after another, each with its payload, its    *)
(* progress and its entry in the results, and the results written to a     *)
(* file at the end.  What a benchmark does for a sample is in LatencyRound *)
(* and Contention; here it returns one, or throws and thereby ends the     *)
(* program.  The console is added in ProgressReporter, and the text of the *)
(* file in Plots.                                                          *)
(***************************************************************************)
EXTENDS Integers, Sequences, Functions

CONSTANTS n,          \* samples per benchmark, 50000 in the code
          Machines,   \* values of std::thread::hardware_concurrency()
          NoFile,     \* no results on disk
          OldFile,    \* results of an earlier run of the program
          Truncated   \* the beginning of a text that did not fit the disk

ASSUME SamplesAssumption == n \in Nat /\ n > 1
ASSUME MachinesAssumption == Machines \subseteq Nat

VARIABLES machine,          \* hardware_concurrency() of this machine
          at,               \* next step of main() and add_payload()
          current,          \* number of the benchmark that runs
          payload,          \* the samples, named for who has measured them
          m_progress,       \* member of the progress_reporter
          reported,         \* progress last reported, -1: none yet
          serializations,
          file              \* analysis/json_out.txt

vars == <<machine, at, current, payload, m_progress, reported,
          serializations, file>>

Nothing == <<>>   \* the map without entries

MainOrder == <<"thread_start_latency", "thread_start_cost",
               "spinlock_latency", "semaphore_latency",
               "atomic_flag_test_latency", "scoped_lock_latency",
               "contention_atomic_flag", "contention_atomic_add",
               "contention_mutex">>

benchmark == MainOrder[current]

\* Mutant: a file made from another's copy keeps the other's description.
DescriptionCopied(b) ==
    IF b = "contention_atomic_add" THEN "contention_atomic_flag" ELSE b

\* The key each benchmark passes to add_payload(): its own name.
Description(b) == b

Contenders == {"contention_atomic_flag", "contention_atomic_add",
               "contention_mutex"}

contention_thread_count == machine \div 2 - 1

Init ==
    /\ machine \in Machines
    /\ at = "construct"
    /\ current = 1
    /\ payload = <<>>
    /\ m_progress = 0
    /\ reported = -1
    /\ serializations = Nothing
    /\ file \in {NoFile, OldFile}

Goes(from, to) ==
    /\ at = from
    /\ at' = to
    /\ UNCHANGED machine

results == <<serializations, file>>

\* progress_reporter(), and the payload
Construct ==
    /\ Goes("construct", "report")
    /\ payload' = <<>>
    /\ m_progress' = 0
    /\ reported' = -1
    /\ UNCHANGED <<current, results>>

\* report(): the first progress is shown, and others when time has passed.
Report ==
    /\ Goes("report", "measure")
    /\ reported' = m_progress
    /\ m_progress' = m_progress + 1
    /\ UNCHANGED <<current, payload, results>>

\* ... and otherwise left out.
ReportTooSoon ==
    /\ Goes("report", "measure")
    /\ reported >= 0
    /\ m_progress' = m_progress + 1
    /\ UNCHANGED <<current, payload, reported, results>>

\* Mutant: the last iteration is left out.
MeasureOneShort ==
    /\ benchmark \in Contenders => contention_thread_count >= 0
    /\ Goes("measure", IF Len(payload) + 2 < n THEN "report" ELSE "emplace")
    /\ payload' = Append(payload, benchmark)
    /\ UNCHANGED <<current, m_progress, reported, results>>

\* Mutant: a negative number of contenders is taken for none.
MeasureUnguarded ==
    /\ Goes("measure", IF Len(payload) + 1 < n THEN "report" ELSE "emplace")
    /\ payload' = Append(payload, benchmark)
    /\ UNCHANGED <<current, m_progress, reported, results>>

\* payload.emplace_back(fun()), and the loop
Measure ==
    /\ benchmark \in Contenders => contention_thread_count >= 0
    /\ Goes("measure", IF Len(payload) + 1 < n THEN "report" ELSE "emplace")
    /\ payload' = Append(payload, benchmark)
    /\ UNCHANGED <<current, m_progress, reported, results>>

\* Every benchmark of main() starts threads for each sample, and that may
\* fail; threads.reserve() of a negative count always does.  Nobody catches
\* the exception.
Throw ==
    /\ Goes("measure", "terminated")
    /\ UNCHANGED <<current, payload, m_progress, reported, results>>

\* data.emplace(): an entry of that name stays as it is.
Emplace ==
    /\ Goes("emplace", "destroy")
    /\ serializations' =
         IF Description(benchmark) \in DOMAIN serializations
         THEN serializations
         ELSE [key \in DOMAIN serializations \cup {Description(benchmark)} |->
                 IF key = Description(benchmark) THEN payload
                 ELSE serializations[key]]
    /\ UNCHANGED <<current, payload, m_progress, reported, file>>

\* ~progress_reporter(), and the next benchmark
Destroy ==
    /\ Goes("destroy", IF current < Len(MainOrder) THEN "construct"
                       ELSE "json_write")
    /\ current' = IF current < Len(MainOrder) THEN current + 1 ELSE current
    /\ UNCHANGED <<payload, m_progress, reported, results>>

\* json_write(): neither whether the file could be opened is looked at, which
\* leaves what was there, nor whether all of the text could be written.
JsonWrite ==
    /\ Goes("json_write", "exited")
    /\ file' \in {serializations, Truncated, file}
    /\ UNCHANGED <<current, payload, m_progress, reported, serializations>>

Step ==
    \/ Construct \/ Report \/ ReportTooSoon \/ Measure \/ Throw \/ Emplace
    \/ Destroy \/ JsonWrite

Terminating ==
    /\ at \in {"exited", "terminated"}
    /\ UNCHANGED vars

Next == Step \/ Terminating

\* The program keeps running.
Spec == Init /\ [][Next]_vars /\ WF_vars(Step)
-----------------------------------------------------------------------------
(* Properties *)

Unwritten == {NoFile, OldFile}

\* What json_write() has written to its end is complete: one entry for every
\* benchmark of main(), with n samples that this benchmark has measured.  Until
\* then, and for good when main() does not get that far, the results of an
\* earlier run stay as they are.
FileIsComplete ==
    /\ file \notin Unwritten \cup {Truncated} =>
         \A b \in Range(MainOrder) :
             /\ b \in DOMAIN file
             /\ file[b] = [k \in 1 .. n |-> b]
    /\ at # "exited" => file \in Unwritten

\* The program ends; on a machine with less than two cores the contention
\* benchmarks end it, and with it go the results of all before them.
SuiteEnds ==
    <>(\/ at = "terminated" /\ file \in Unwritten
       \/ at = "exited" /\ machine >= 2)
=============================================================================
