------------------------------ MODULE FileApps ------------------------------
(***************************************************************************)
(* The RAM file system, the Notepad and the file manager of                *)
(* src/kernel/desktop.c.  Everything runs in the main loop, one key or click *)
(* at a time, but any number of editors and file managers may be open and   *)
(* each remembers slots, names or list positions of files the others change. *)
(*                                                                         *)
(* The user may raise any window before acting on it, so z-order does not   *)
(* matter.  A text is a sequence of edits, each different, made at its end   *)
(* (the cursor is left out).  The letters of a name being typed are left    *)
(* out: Enter gives a valid name, or one that Save As refuses.              *)
(***************************************************************************)
EXTENDS Integers, Sequences, FiniteSets

CONSTANTS
  MAX_WINDOWS, \* slots of g_wins
  MaxFiles,    \* FS_MAX_FILES
  FileCap,     \* FS_MAX_FDATA
  TextCap,     \* NOTEPAD_MAX_TEXT - 1
  Names,       \* valid names the user may give, the initial files' included
  MaxEdits     \* bound: characters typed in a behaviour

VARIABLES
  fs,          \* g_fs
  win,         \* g_wins
  edits        \* characters typed so far

files_vars == <<fs, win, edits>>

NOT_FOUND == 0
NONAME    == ""
Untitled  == "untitled.txt"
FileSlots == 1 .. MaxFiles
Windows   == 1 .. MAX_WINDOWS

ASSUME FileAssumption ==
  /\ MAX_WINDOWS \in Nat /\ MaxFiles \in Nat \ {0, 1}
  /\ FileCap \in Nat \ {0} /\ TextCap \in Nat /\ FileCap <= TextCap
  /\ MaxEdits \in Nat
  /\ {"welcome.txt", "notes.txt", Untitled} \subseteq Names
  /\ NONAME \notin Names

Least(S) == IF S = {} THEN NOT_FOUND ELSE CHOOSE i \in S : \A j \in S : i <= j
Cut(t, cap) == IF Len(t) > cap THEN SubSeq(t, 1, cap) ELSE t

-----------------------------------------------------------------------------
(* The RAM file system.  f is the array of slots. *)

NoFile == [used |-> FALSE, name |-> NONAME, data |-> << >>]
File(n, t) == [used |-> TRUE, name |-> n, data |-> t]

Used(f) == {i \in DOMAIN f : f[i].used}
FsFind(f, n) == Least({i \in Used(f) : f[i].name = n})

\* Mutant: a full array gives slot 1.
FsCreateEvict(f, n) ==
  IF FsFind(f, n) # NOT_FOUND THEN FsFind(f, n)
  ELSE IF DOMAIN f = Used(f) THEN 1 ELSE Least(DOMAIN f \ Used(f))

\* The slot fs_create returns: the file of that name, or the first free slot.
FsCreate(f, n) ==
  IF FsFind(f, n) # NOT_FOUND THEN FsFind(f, n) ELSE Least(DOMAIN f \ Used(f))

FsDelete(f, i) == [f EXCEPT ![i] = NoFile]

\* Find or create, then copy what fits; nothing if there is no room.
Written(f, n, t) ==
  IF FsCreate(f, n) = NOT_FOUND THEN f
  ELSE [f EXCEPT ![FsCreate(f, n)] = File(n, Cut(t, FileCap))]

-----------------------------------------------------------------------------
(* Windows. *)

Window(kind) ==
  [kind |-> kind, text |-> << >>, fname |-> NONAME, dirty |-> FALSE,
   file_idx |-> NOT_FOUND, save_as |-> FALSE,
   sel |-> 0, confirming |-> FALSE, confirm_idx |-> -1]
NoApp == Window("unused")

Notepad(w) == win[w].kind = "notepad"
Manager(w) == win[w].kind = "manager"
FreeWindow == Least({w \in Windows : win[w].kind = "unused"})

WindowIs(w, e) == win' = [win EXCEPT ![w] = e]

\* An icon opens a window in the first free slot, if any (win_open).
AppOpen(kind) ==
  /\ FreeWindow # NOT_FOUND
  /\ WindowIs(FreeWindow, Window(kind))
  /\ UNCHANGED <<fs, edits>>

\* win_close asks nothing and saves nothing.
AppClose(w) ==
  /\ win[w].kind # "unused"
  /\ WindowIs(w, NoApp)
  /\ UNCHANGED <<fs, edits>>

-----------------------------------------------------------------------------
(* The Notepad. *)

\* np_feed with a printable character or Enter, and with backspace.
TypeChar(w) ==
  /\ Notepad(w) /\ ~win[w].save_as /\ edits < MaxEdits
  /\ edits' = edits + 1
  /\ IF Len(win[w].text) < TextCap
     THEN WindowIs(w, [win[w] EXCEPT !.text = Append(@, edits + 1), !.dirty = TRUE])
     ELSE UNCHANGED win
  /\ UNCHANGED fs

Backspace(w) ==
  /\ Notepad(w) /\ ~win[w].save_as /\ win[w].text # << >>
  /\ WindowIs(w, [win[w] EXCEPT !.text = SubSeq(@, 1, Len(@) - 1), !.dirty = TRUE])
  /\ UNCHANGED <<fs, edits>>

\* np_save of editor e: a document without a name gets one, and stays dirty
\* if there is no room for its file.
SaveName(e) == IF e.fname = NONAME THEN Untitled ELSE e.fname
Saved(e) ==
  IF FsCreate(fs, SaveName(e)) = NOT_FOUND THEN [e EXCEPT !.fname = SaveName(e)]
  ELSE [e EXCEPT !.fname = SaveName(e), !.dirty = FALSE,
                 !.file_idx = FsCreate(fs, SaveName(e))]
\* Mutant: the slot the editor remembers is written.
AfterSaveSlot(e) ==
  IF e.file_idx = NOT_FOUND THEN Written(fs, SaveName(e), e.text)
  ELSE [fs EXCEPT ![e.file_idx] = File(SaveName(e), Cut(e.text, FileCap))]
AfterSave(e) == Written(fs, SaveName(e), e.text)

NpSave(w) ==
  /\ Notepad(w)
  /\ fs' = AfterSave(win[w]) /\ WindowIs(w, Saved(win[w]))
  /\ UNCHANGED edits

\* What New and Open do first.
\* Mutant: nothing is saved.
AfterAutosaveNot(e) == fs
AfterAutosave(e) == IF e.dirty THEN AfterSave(e) ELSE fs

NpNew(w) ==
  /\ Notepad(w)
  /\ fs' = AfterAutosave(win[w])
  /\ WindowIs(w, [Window("notepad") EXCEPT !.save_as = win[w].save_as])
  /\ UNCHANGED edits

\* The used slot after the editor's, around the array, or the first used one.
Past(i, j) == (j - i - 1) % MaxFiles
NextFile(e) ==
  IF e.file_idx \in Used(fs)
  THEN CHOOSE j \in Used(fs) : \A k \in Used(fs) : Past(e.file_idx, j) <= Past(e.file_idx, k)
  ELSE Least(Used(fs))

\* Editor e showing slot i of f.
Loaded(e, f, i) ==
  [e EXCEPT !.text = Cut(f[i].data, TextCap), !.fname = f[i].name,
            !.dirty = FALSE, !.file_idx = i]

NpOpenNext(w) ==
  /\ Notepad(w) /\ NextFile(win[w]) # NOT_FOUND
  /\ fs' = AfterAutosave(win[w])
  /\ WindowIs(w, Loaded(win[w], fs', NextFile(win[w])))
  /\ UNCHANGED edits

SaveAsBegin(w) ==
  /\ Notepad(w) /\ ~win[w].save_as
  /\ WindowIs(w, [win[w] EXCEPT !.save_as = TRUE])
  /\ UNCHANGED <<fs, edits>>

\* Esc, or Enter on a name that is refused: the prompt closes.
SaveAsLeave(w) ==
  /\ Notepad(w) /\ win[w].save_as
  /\ WindowIs(w, [win[w] EXCEPT !.save_as = FALSE])
  /\ UNCHANGED <<fs, edits>>

\* Enter on a valid name: a file of that name in another slot is deleted first.
SaveAs(w, n) ==
  LET e     == win[w]
      other == FsFind(fs, n)
      f     == IF other # NOT_FOUND /\ other # e.file_idx THEN FsDelete(fs, other) ELSE fs
      idx   == FsCreate(f, n)
  IN  /\ Notepad(w) /\ e.save_as
      /\ fs' = Written(f, n, e.text)
      /\ WindowIs(w, IF idx = NOT_FOUND THEN [e EXCEPT !.save_as = FALSE]
                    ELSE [e EXCEPT !.save_as = FALSE, !.fname = n, !.dirty = FALSE,
                                   !.file_idx = idx])
      /\ UNCHANGED edits

-----------------------------------------------------------------------------
(* The file manager. *)

\* fm_nth: the slot of the k-th used file, from 0.
FmNth(f, k) ==
  Least({i \in Used(f) : Cardinality({j \in Used(f) : j < i}) = k})

\* fm_render, and the code after a delete, pull the selection into the list.
Clamped(e, f) ==
  LET n == Cardinality(Used(f))
  IN  [e EXCEPT !.sel = IF @ < n THEN @ ELSE IF n > 0 THEN n - 1 ELSE 0]

\* A click on a row, or the arrow keys; what shows the window again.
FmSelect(w, k) ==
  /\ Manager(w) /\ ~win[w].confirming /\ k < Cardinality(Used(fs))
  /\ WindowIs(w, [win[w] EXCEPT !.sel = k])
  /\ UNCHANGED <<fs, edits>>
FmRedraw(w) ==
  /\ Manager(w)
  /\ WindowIs(w, Clamped(win[w], fs))
  /\ UNCHANGED <<fs, edits>>

\* Del or backspace: the dialog remembers a position in the list.
FmAskDelete(w) ==
  /\ Manager(w) /\ ~win[w].confirming /\ FmNth(fs, win[w].sel) # NOT_FOUND
  /\ WindowIs(w, [win[w] EXCEPT !.confirming = TRUE, !.confirm_idx = win[w].sel])
  /\ UNCHANGED <<fs, edits>>

Dismissed(e) == [e EXCEPT !.confirming = FALSE, !.confirm_idx = -1]

\* Yes: the file at that position now, if there is one.
FmConfirm(w) ==
  LET i == FmNth(fs, win[w].confirm_idx)
  IN  /\ Manager(w) /\ win[w].confirming
      /\ fs' = IF i = NOT_FOUND THEN fs ELSE FsDelete(fs, i)
      /\ WindowIs(w, Dismissed(Clamped(win[w], fs')))
      /\ UNCHANGED edits
FmCancel(w) ==
  /\ Manager(w) /\ win[w].confirming
  /\ WindowIs(w, Dismissed(Clamped(win[w], fs)))
  /\ UNCHANGED <<fs, edits>>

\* Enter opens the selected file in a new Notepad window.
FmOpenSelected(w) ==
  LET i == FmNth(fs, win[w].sel)
  IN  /\ Manager(w) /\ ~win[w].confirming
      /\ i # NOT_FOUND /\ FreeWindow # NOT_FOUND
      /\ WindowIs(FreeWindow, Loaded(Window("notepad"), fs, i))
      /\ UNCHANGED <<fs, edits>>

-----------------------------------------------------------------------------
(* desktop_init: two files, and the About window, which is left out.        *)
FilesInit ==
  /\ fs = [i \in FileSlots |-> CASE i = 1 -> File("welcome.txt", <<-1>>)
                                 [] i = 2 -> File("notes.txt", <<-2>>)
                                 [] OTHER -> NoFile]
  /\ win = [w \in Windows |-> NoApp]
  /\ edits = 0

NotepadStep(w) ==
  \/ TypeChar(w) \/ Backspace(w)
  \/ NpSave(w) \/ NpNew(w) \/ NpOpenNext(w)
  \/ SaveAsBegin(w) \/ SaveAsLeave(w) \/ \E n \in Names : SaveAs(w, n)

ManagerStep(w) ==
  \/ \E k \in 0 .. (MaxFiles - 1) : FmSelect(w, k)
  \/ FmRedraw(w) \/ FmAskDelete(w) \/ FmConfirm(w) \/ FmCancel(w) \/ FmOpenSelected(w)

FilesNext ==
  \/ \E kind \in {"notepad", "manager"} : AppOpen(kind)
  \/ \E w \in Windows : AppClose(w) \/ NotepadStep(w) \/ ManagerStep(w)

FilesSpec == FilesInit /\ [][FilesNext]_files_vars

-----------------------------------------------------------------------------
(* Types: lengths within their buffers, slots and positions in range.       *)
Files ==
  {f \in [used : BOOLEAN, name : Names \cup {NONAME}, data : Seq(Int)] :
     Len(f.data) <= FileCap /\ (f.used => f.name \in Names)}
States ==
  {e \in [kind : {"unused", "notepad", "manager"}, text : Seq(Int),
          fname : Names \cup {NONAME}, dirty : BOOLEAN,
          file_idx : {NOT_FOUND} \cup FileSlots, save_as : BOOLEAN,
          sel : 0 .. (MaxFiles - 1), confirming : BOOLEAN,
          confirm_idx : -1 .. (MaxFiles - 1)] :
     Len(e.text) <= TextCap}
TypeOK == fs \in [FileSlots -> Files] /\ win \in [Windows -> States] /\ edits \in Nat

(* No two files have one name, whatever slots are freed and reused in       *)
(* whatever order: fs_find, which stops at the first, finds the only one.   *)
NamesUnique == \A i, j \in Used(fs) : fs[i].name = fs[j].name => i = j

(* The slots and the positions in lists that windows keep do what the README *)
(* says in terms of names: each operation stores, loads or removes the one   *)
(* file it is about, and every other file and editor keeps its text.         *)
FileNames(f)   == {f[i].name : i \in Used(f)}
NameSlot(f, n) == CHOOSE i \in Used(f) : f[i].name = n
Contents == [n \in FileNames(fs) |-> fs[NameSlot(fs, n)].data]
Texts    == [w \in {v \in Windows : Notepad(v)} |-> win[w].text]
Store == INSTANCE FileStore
  WITH Editors <- Windows, Chars <- 1 .. MaxEdits, files <- Contents, texts <- Texts
ImplementsFileStore == Store!Spec

(* A file disappears only in answer to the dialog ("explicit Yes / No",       *)
(* README.md:207): no save, new document or full file system evicts one.     *)
RemovedOnlyWhenAsked ==
  [][FileNames(fs) \subseteq FileNames(fs') \/
     \E w \in Windows : win[w].confirming /\ ~win'[w].confirming]_files_vars

\* An editor with unsaved changes that is open after the step, and is clean.
Cleaned(w) ==
  /\ Notepad(w) /\ win[w].dirty
  /\ Notepad(w)' /\ ~win'[w].dirty

InAFile(t) == \E i \in DOMAIN fs' : fs'[i].used /\ fs'[i].data = t

(* An editor stops being dirty only when its text is in a file: with room   *)
(* for the file and a text that fits in one, New, Open, Save and Save As     *)
(* lose nothing, whatever became of the slot the editor remembers.           *)
SavedWhenRoom ==
  [][\A w \in Windows :
       /\ Cleaned(w) /\ Len(win[w].text) <= FileCap
       /\ Used(fs) # FileSlots \/ FsFind(fs, SaveName(win[w])) # NOT_FOUND
       => InAFile(win[w].text)]_files_vars

=============================================================================
