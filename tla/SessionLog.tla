------------------------------ MODULE SessionLog ------------------------------
(* The files of a persisted session (rath/session/persistence): the JSONL     *)
(* lines a SessionWriter appends and flushes one by one to                    *)
(* <id>.jsonl.__partial__, the rename to <id>.jsonl that ends it, and what    *)
(* load_session and list_persisted_sessions make of whatever is on disk after *)
(* an error, a cancellation or a crash.                                       *)
(*                                                                            *)
(* A line is a record; "torn" is a line without its newline (a crash within   *)
(* the write), "garbage" is a line that is not JSON (something appended to a  *)
(* torn line).                                                                *)
EXTENDS Integers, Sequences, SequencesExt, FiniteSets

CONSTANTS
    Missing,         \* no file of that name
    SchemaVersion,   \* CURRENT_SCHEMA_VERSION
    Migrations       \* versions for which a header migrator is registered

VARIABLES
    partial,         \* <id>.jsonl.__partial__: a sequence of lines, or Missing
    final,           \* <id>.jsonl
    handle,          \* the SessionWriter: "none", "open" (with the lock), "closed"
    buffered         \* lines of its file object that a failed flush left behind

logVars == <<partial, final, handle, buffered>>

LogInit == partial = Missing /\ final = Missing /\ handle = "none" /\ buffered = <<>>

-----------------------------------------------------------------------------
(* Records *)

build_header == [kind |-> "header", version |-> SchemaVersion]
build_chunk_record(index, row) == [kind |-> "chunk", index |-> index, row |-> row]
build_trailer(count, usage) == [kind |-> "trailer", count |-> count, usage |-> usage]
Torn    == [kind |-> "torn"]
Garbage == [kind |-> "garbage"]

\* Lines that are written together; the first one spoils a torn line it is written behind.
AppendLines(file, lines) ==
    IF lines # <<>> /\ file # <<>> /\ Last(file).kind = "torn"
    THEN Front(file) \o <<Garbage>> \o Tail(lines) ELSE file \o lines

LinesOf(file, kind) == {i \in 1 .. Len(file) : file[i].kind = kind}

\* The number of which j - 1 are smaller, of a set.
Nth(places, j) == CHOOSE i \in places : Cardinality({h \in places : h <= i}) = j

\* The chunk records, in the order of the file.
ChunksIn(file) ==
    LET places == LinesOf(file, "chunk")
    IN  [j \in 1 .. Cardinality(places) |-> file[Nth(places, j)]]

-----------------------------------------------------------------------------
(* SessionWriter *)

\* __init__: open for append, lock, header.  A path that another writer has
\* locked raises before anything is written.
OpenWriter ==
    /\ handle = "none"
    /\ partial' = AppendLines(IF partial = Missing THEN <<>> ELSE partial, <<build_header>>)
    /\ handle' = "open"
    /\ UNCHANGED <<final, buffered>>

\* _write_record: write and flush.  What an earlier flush failed to write goes
\* out first; a file that was unlinked meanwhile takes the line with it.
WriteRecord(line) ==
    /\ handle = "open"
    /\ partial' = IF partial = Missing THEN Missing
                  ELSE AppendLines(partial, Append(buffered, line))
    /\ buffered' = <<>>
    /\ UNCHANGED <<final, handle>>

\* write_chunk of a payload that json.dumps refuses, or whose flush fails.
WriteFails(line) ==
    /\ handle = "open"
    /\ buffered' \in {buffered, Append(buffered, line)}
    /\ UNCHANGED <<partial, final, handle>>

\* _release: unlock and close, which flushes once more.
Release(flushed) ==
    /\ handle = "open" /\ handle' = "closed"
    /\ partial' = IF flushed /\ partial # Missing THEN AppendLines(partial, buffered)
                  ELSE partial
    /\ buffered' = <<>>
    /\ UNCHANGED final

\* The last step of close: os.replace, where a missing file is no error.
Rename ==
    /\ IF partial = Missing THEN UNCHANGED <<partial, final>>
       ELSE final' = partial /\ partial' = Missing
    /\ UNCHANGED <<handle, buffered>>

\* The process dies; a line that is being written may be cut.
TearLine ==
    /\ partial' \in {partial} \cup (IF partial = Missing THEN {} ELSE {AppendLines(partial, <<Torn>>)})
    /\ UNCHANGED <<final, handle, buffered>>

-----------------------------------------------------------------------------
(* Reading *)

\* upgrade_header: every version up to the current one needs its migrator.
Upgradable(version) ==
    /\ version <= SchemaVersion
    /\ \A v \in version .. SchemaVersion - 1 : v \in Migrations

\* load_session reads the final file, else the partial one.
Target == IF final # Missing THEN final ELSE partial

Headers(file) == LinesOf(file, "header")

\* load_session raises unless this holds.
Loads(file) ==
    /\ file # Missing
    /\ \A i \in 1 .. Len(file) : file[i].kind # "garbage"
    /\ \E h \in Headers(file) :
        /\ Headers(file) = {h}
        /\ Upgradable(file[h].version)
        /\ \A i \in 1 .. h - 1 : file[i].kind # "chunk"

LoadedRows(file) == [i \in 1 .. Len(ChunksIn(file)) |-> ChunksIn(file)[i].row]

LoadedClosed(file) == LinesOf(file, "trailer") # {}

LoadedUsage(file) == file[Max(LinesOf(file, "trailer"))].usage

\* _meta_from_file, on every file whose name has one of the two suffixes.
Meta(file) == [chunk_count |-> Len(ChunksIn(file)), closed |-> LoadedClosed(file)]

Listed == {f \in {final, partial} \ {Missing} :
            /\ \A i \in 1 .. Len(f) : f[i].kind # "garbage"
            /\ \E h \in Headers(f) : Upgradable(f[h].version) /\ \A i \in Headers(f) : h <= i}

\* delete_session removes the files it finds.  A live writer keeps its inode.
DeleteSession(old) ==
    /\ partial' = IF "partial" \in old THEN Missing ELSE partial
    /\ final' = IF "final" \in old THEN Missing ELSE final
    /\ UNCHANGED <<handle, buffered>>

\* prune_sessions deletes the listed files that are old enough, whether or not
\* a writer still has them open.
PruneSessions ==
    /\ Listed # {}
    /\ DeleteSession({n \in {"partial", "final"} : (IF n = "final" THEN final ELSE partial) \in Listed})
=============================================================================
