------------------------------ MODULE Baseline ------------------------------
(***************************************************************************)
(* The baseline of -evolve -since (spector.go, revisionDoc): "git archive" *)
(* of a revision, streamed through a pipe into "tar -x", and a scan of     *)
(* what tar wrote.                                                         *)
(*                                                                         *)
(* The two commands and the kernel's pipe are external.  The program keeps *)
(* the pipe's read end until archive.Wait returns: it came from StdoutPipe *)
(* and was handed to tar as it is, so tar's death does not close it.       *)
(***************************************************************************)
EXTENDS Naturals

CONSTANTS PipeSize,     \* blocks the pipe holds
          MaxBlocks     \* model bound: blocks of an archive

ASSUME BaselineAssumption == PipeSize \in Nat \ {0} /\ MaxBlocks \in Nat

VARIABLES main,       \* revisionDoc
          git,        \* the archive command
          tar,        \* the extract command
          size,       \* blocks of the revision's archive
          sent,       \* blocks git wrote
          pipe,       \* blocks in the pipe
          held,       \* the program holds the pipe's read end
          extracted,  \* blocks tar wrote to the export directory
          temp        \* the export directory exists

vars == <<main, git, tar, size, sent, pipe, held, extracted, temp>>

Process == {"off", "running", "ok", "failed"}

TypeOK ==
    /\ main \in {"start", "temp", "started", "archive", "extract", "scan", "scanned", "error"}
    /\ git \in Process /\ tar \in Process
    /\ size \in 0..MaxBlocks /\ sent \in 0..size
    /\ pipe \in 0..PipeSize /\ extracted \in 0..size /\ extracted + pipe <= sent
    /\ held \in BOOLEAN
    /\ temp = (main \notin {"start", "scanned", "error"})

Init ==
    /\ main = "start" /\ git = "off" /\ tar = "off"
    /\ size \in 0..MaxBlocks
    /\ sent = 0 /\ pipe = 0 /\ extracted = 0
    /\ held = FALSE /\ temp = FALSE

(* Every return after MkdirTemp removes the export directory. *)
Returns(end) == main' = end /\ temp' = FALSE

---------------------------------------------------------------------------
(* An invalid revision, no git, or no temporary directory. *)
Refuse ==
    /\ main = "start"
    /\ main' = "error"
    /\ UNCHANGED <<git, tar, size, sent, pipe, held, extracted, temp>>

(* MkdirTemp and StdoutPipe *)
Prepare ==
    /\ main = "start"
    /\ main' = "temp" /\ temp' = TRUE /\ held' = TRUE
    /\ UNCHANGED <<git, tar, size, sent, pipe, extracted>>

\* variant of StartExtract, with a slip
ExtractsLater ==
    /\ main = "temp"
    /\ main' = "started"
    /\ UNCHANGED <<git, tar, size, sent, pipe, held, extracted, temp>>
StartExtract ==
    /\ main = "temp"
    /\ tar' = "running" /\ main' = "started"
    /\ UNCHANGED <<git, size, sent, pipe, held, extracted, temp>>

StartExtractFails ==
    /\ main = "temp"
    /\ Returns("error")
    /\ UNCHANGED <<git, tar, size, sent, pipe, held, extracted>>

StartArchive ==
    /\ main = "started"
    /\ git' = "running" /\ main' = "archive"
    /\ UNCHANGED <<tar, size, sent, pipe, held, extracted, temp>>

(* A command that does not start closes the pipes made for it. *)
StartArchiveFails ==
    /\ main = "started"
    /\ git' = "failed" /\ held' = FALSE
    /\ Returns("error")
    /\ UNCHANGED <<tar, size, sent, pipe, extracted>>

(* archive.Wait closes the read end the program held. *)
WaitArchive ==
    /\ main = "archive" /\ git \in {"ok", "failed"}
    /\ held' = FALSE
    /\ IF git = "ok" THEN main' = "extract" /\ UNCHANGED temp ELSE Returns("error")
    /\ UNCHANGED <<git, tar, size, sent, pipe, extracted>>

\* variant of ExtractDone, with a slip
ExtractOver == TRUE
ExtractDone == tar \in {"ok", "failed"}

WaitExtract ==
    /\ main = "extract" /\ ExtractDone
    /\ IF tar = "failed" THEN Returns("error") ELSE main' = "scan" /\ UNCHANGED temp
    /\ UNCHANGED <<git, tar, size, sent, pipe, held, extracted>>

(* Generate over the export directory *)
Scan ==
    /\ main = "scan"
    /\ \E end \in {"scanned", "error"} : Returns(end)
    /\ UNCHANGED <<git, tar, size, sent, pipe, held, extracted>>

Main ==
    \/ Refuse \/ Prepare \/ StartExtract \/ StartExtractFails
    \/ StartArchive \/ StartArchiveFails \/ WaitArchive \/ WaitExtract \/ Scan

---------------------------------------------------------------------------
(* The commands. *)

GitWrites ==
    /\ git = "running" /\ sent < size /\ pipe < PipeSize
    /\ held \/ tar = "running"
    /\ sent' = sent + 1 /\ pipe' = pipe + 1
    /\ UNCHANGED <<main, git, tar, size, held, extracted, temp>>

(* The whole archive is written, or nobody is left to read the rest. *)
GitEnds ==
    /\ git = "running"
    /\ \/ sent = size /\ git' = "ok"
       \/ sent < size /\ ~ held /\ tar # "running" /\ git' = "failed"
    /\ UNCHANGED <<main, tar, size, sent, pipe, held, extracted, temp>>

(* The revision is unknown, or an object of it cannot be read. *)
GitFails ==
    /\ git = "running" /\ sent < size
    /\ git' = "failed"
    /\ UNCHANGED <<main, tar, size, sent, pipe, held, extracted, temp>>

TarReads ==
    /\ tar = "running" /\ pipe > 0
    /\ pipe' = pipe - 1 /\ extracted' = extracted + 1
    /\ UNCHANGED <<main, git, tar, size, sent, held, temp>>

TarEnds ==
    /\ tar = "running" /\ pipe = 0 /\ git \in {"ok", "failed"}
    /\ tar' = "ok"
    /\ UNCHANGED <<main, git, size, sent, pipe, held, extracted, temp>>

(* The disk is full, or the archive is no archive. *)
TarFails ==
    /\ tar = "running"
    /\ tar' = "failed"
    /\ UNCHANGED <<main, git, size, sent, pipe, held, extracted, temp>>

Commands == GitWrites \/ GitEnds \/ TarReads \/ TarEnds

(* The two commands run beside the program.                                *)
Next == Main \/ Commands \/ GitFails \/ TarFails

Spec == Init /\ [][Next]_vars

---------------------------------------------------------------------------
(* The baseline is scanned only once all of the revision is in the export  *)
(* directory: a document built from half a revision would report what is   *)
(* missing as additions (spector.go:575-590).                              *)
ScannedIsComplete ==
    main \in {"scan", "scanned"} => git = "ok" /\ tar = "ok" /\ extracted = size
=============================================================================
