----------------------------- MODULE FileStore -----------------------------
(***************************************************************************)
(* What the desktop promises of files (README.md, "Writer / Notepad" and    *)
(* "File manager"): a flat map from names to contents and editors that hold  *)
(* texts.  Saving stores an editor's text under one name, opening loads the  *)
(* file chosen, deleting removes it; every other file keeps its contents.   *)
(***************************************************************************)
EXTENDS Naturals, Sequences

CONSTANTS
  Names,    \* file names
  Editors,  \* where an editor may be open
  Chars,    \* characters that may be typed
  FileCap   \* the longest content a file holds

VARIABLES
  files,    \* content of each file, by name
  texts     \* text in each open editor

Trunc(t) == IF Len(t) > FileCap THEN SubSeq(t, 1, FileCap) ELSE t
Put(f, k, v) == [x \in DOMAIN f \cup {k} |-> IF x = k THEN v ELSE f[x]]
Drop(f, k)   == [x \in DOMAIN f \ {k} |-> f[x]]

\* A character more, one fewer, or a new document.
Edit(w) ==
  /\ w \in DOMAIN texts
  /\ \/ \E c \in Chars : texts' = Put(texts, w, Append(texts[w], c))
     \/ texts[w] # << >> /\ texts' = Put(texts, w, SubSeq(texts[w], 1, Len(texts[w]) - 1))
     \/ texts' = Put(texts, w, << >>)
  /\ UNCHANGED files

\* Save, after which the editor keeps its text, is emptied, or shows a file.
Save(w, n) ==
  /\ w \in DOMAIN texts
  /\ files' = Put(files, n, Trunc(texts[w]))
  /\ \/ UNCHANGED texts
     \/ texts' = Put(texts, w, << >>)
     \/ \E m \in DOMAIN files' : texts' = Put(texts, w, files'[m])

Load(w, n) ==
  /\ n \in DOMAIN files
  /\ texts' = Put(texts, w, files[n])
  /\ UNCHANGED files

OpenEmpty(w) == w \notin DOMAIN texts /\ texts' = Put(texts, w, << >>) /\ UNCHANGED files
Close(w)     == texts' = Drop(texts, w) /\ UNCHANGED files
Delete(n)    == files' = Drop(files, n) /\ UNCHANGED texts

Next ==
  \/ \E w \in DOMAIN texts : \E n \in Names : Save(w, n)
  \/ \E w \in DOMAIN texts : Close(w) \/ Edit(w)
  \/ \E w \in Editors : OpenEmpty(w) \/ \E n \in Names : Load(w, n)
  \/ \E n \in Names : Delete(n)

Spec == [][Next]_<<files, texts>>
=============================================================================
