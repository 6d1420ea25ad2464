---------------------------- MODULE MCMigration ----------------------------
(* Small instances of Migration for TLC.                                    *)
EXTENDS Migration, TLC

\* Processes are interchangeable: no definition orders them.
MCSymmetry == Permutations(Processes)
=============================================================================
