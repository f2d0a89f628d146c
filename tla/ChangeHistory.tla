---------------------------- MODULE ChangeHistory ----------------------------
(***************************************************************************)
(* What a storage's change stream promises its readers, without files,     *)
(* records, transactions or recovery: a numbered, append-only history of   *)
(* changes, one per generation.                                            *)
(*                                                                         *)
(*   hStatus    "off" (disabled), "on" (readable), "lost" (not readable    *)
(*              now: the process is down or the stream is unavailable)     *)
(*   hGen       the generation readers see                                 *)
(*   hLog       the changes of that generation, by position                *)
(*   hEarliest  the position through which history was reclaimed           *)
(*   hRisk      a call failed half-way, and the stream goes on with a log  *)
(*              that the next process may not find                         *)
(***************************************************************************)
EXTENDS Naturals, SequencesExt

CONSTANTS Bodies, Gens

VARIABLES hStatus, hGen, hLog, hEarliest, hRisk

hVars == <<hStatus, hGen, hLog, hEarliest, hRisk>>

HInit ==
    /\ hStatus = "off" /\ hGen = 0
    /\ hLog = <<>> /\ hEarliest = 0 /\ hRisk = FALSE

(* Every position keeps its change, and no change has two positions.       *)
Extends(new) ==
    /\ IsPrefix(hLog, new)
    /\ ToSet(new) \subseteq Bodies /\ IsInjective(new)

(* Changes become readable.                                                *)
HPublish ==
    /\ hStatus = "on"
    /\ hLog' # hLog /\ Extends(hLog')
    /\ UNCHANGED <<hStatus, hGen, hEarliest, hRisk>>

HReclaim ==
    /\ hStatus = "on"
    /\ hEarliest' \in (hEarliest + 1)..Len(hLog)
    /\ hRisk' = FALSE
    /\ UNCHANGED <<hStatus, hGen, hLog>>

(* Reclaiming or disabling fails after it has replaced the log.            *)
HRewriteFails ==
    /\ hStatus = "on" /\ hRisk' = TRUE
    /\ UNCHANGED <<hStatus, hGen, hLog, hEarliest>>

(* A new generation is one no reader has seen, and starts empty.           *)
HStart ==
    /\ hStatus # "on" /\ hStatus' = "on"
    /\ hGen' \in Gens /\ hGen' > hGen
    /\ hLog' = <<>> /\ hEarliest' = 0 /\ hRisk' = FALSE

HStop ==
    /\ hStatus # "off" /\ hStatus' = "off"
    /\ hEarliest' = 0 /\ hRisk' = FALSE
    /\ UNCHANGED <<hGen, hLog>>

(* The stream cannot be read; what the last call risked may be gone.       *)
HFail ==
    /\ hStatus' = "lost" /\ hEarliest' = 0
    /\ hRisk' \in BOOLEAN
    /\ hLog' = hLog \/ (hRisk /\ IsPrefix(hLog', hLog))
    /\ UNCHANGED hGen

(* The same history is back, with what was committed in the meantime.      *)
HRecover ==
    /\ hStatus = "lost" /\ hStatus' = "on"
    /\ Extends(hLog')
    /\ hEarliest' \in 0..Len(hLog')
    /\ UNCHANGED <<hGen, hRisk>>

HNext == \/ HPublish \/ HReclaim \/ HRewriteFails \/ HStart \/ HStop \/ HFail
         \/ HRecover

HSpec == HInit /\ [][HNext]_hVars
=============================================================================
