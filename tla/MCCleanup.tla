----------------------------- MODULE MCCleanup -----------------------------
(***************************************************************************)
(* A tree with two inputs of which one's name begins the other's, one      *)
(* nested directory in each, an output directory that is no input and one  *)
(* that is inside an input, and files of one name in several directories.  *)
(***************************************************************************)
EXTENDS Cleanup

CONSTANTS MCCommands, MCDryRuns, MCBackups, MCUndeletable

In == <<"in">>
In2 == <<"in2">>
Out == <<"out">>
MCInputPaths == {In, In2}
MCOutputDirs == {Out, <<"in", "out">>}
MCNamePrefixes == {<<"in", "in2">>}

ZipFile == <<"in", "s", "z.zip">>
Rom == <<"in", "s", "a.rom">>
Copy == <<"in2", "t", "a.rom">>
Thumbs == <<"in", "s", "Thumbs.db">>
Written == <<"in", "out", "a.rom">>
Stray == <<"out", "x", "b.rom">>
Stray2 == <<"out", "b.rom">>
Stray3 == <<"out", "y", "b.rom">>

MCFiles == {ZipFile, Rom, Copy, Thumbs, Written, Stray, Stray2, Stray3}
MCDirectories == {In, In2, Out, <<"in", "s">>, <<"in2", "t">>, <<"in", "out">>,
                  <<"out", "x">>, <<"out", "y">>}
MCJunk == {Thumbs}

Entry(p, k, s, c) == [path |-> p, kind |-> k, archive |-> "Zip", sum |-> s, cue |-> c]
MCIndex == {Entry(ZipFile, "entry", "A", FALSE), Entry(ZipFile, "entry", "B", FALSE),
            Entry(ZipFile, "entry", "C", TRUE),
            Entry(Rom, "plain", "A", FALSE), Entry(Copy, "plain", "A", FALSE)}
MCMoved == {{}, {Entry(Rom, "plain", "A", FALSE)}, {Entry(ZipFile, "entry", "A", FALSE)},
            {Entry(ZipFile, "entry", "A", FALSE), Entry(ZipFile, "entry", "B", FALSE)},
            {Entry(ZipFile, "archive", "Z", FALSE)}}

MCOldBackups == {<<"b.rom", 0>>}

\* Only an archive as a whole, or a plain file, is moved as it is; what is
\* moved has an output.
Possible(r) ==
  /\ r.command = "copy" => r.moved = {} /\ r.deleteDirs = "never" /\ ~ r.rewrites
  /\ \A m \in r.moved : IF r.rewrites THEN m.kind # "archive" ELSE m.kind # "entry"
  /\ r.moved # {} => r.written # {}
  /\ ~ r.clean => ~ r.backup /\ ~ r.dryRun /\ r.excluded = {}
  /\ r.undeletable = {Rom} => r.moved # {} /\ ~ r.clean
  /\ r.undeletable = {Stray} => r.moved = {} /\ r.clean

MCRuns ==
  {r \in [command: MCCommands, rewrites: BOOLEAN, deleteDirs: {"never", "auto", "always"},
          clean: BOOLEAN, dryRun: MCDryRuns, backup: MCBackups, moved: MCMoved,
          written: {{}, {Written}, {Written, Stray}}, excluded: {{}, {Stray3}},
          undeletable: MCUndeletable] : Possible(r)}

\* Undeletable things: nothing, a moved input, a stray file.
SomeUndeletable == {{}, {Rom}, {Stray}}
=============================================================================
