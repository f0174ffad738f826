------------------------------ MODULE Dialogs -------------------------------
(***************************************************************************)
(* The file dialogs of lib/tinyfiledialogs in the Windows build, by what     *)
(* they may answer the window.  A dialog holds the UI thread, not the        *)
(* transfer worker: a file listed may be gone when it is chosen, and gone    *)
(* again when tinyfiledialogs looks at the answer.  Cancel, after which the  *)
(* callers do nothing, and the consoles the dialogs fall back on when there  *)
(* is no screen are left out.                                                *)
(*                                                                         *)
(* A place is a path that may be chosen; folderOf gives its folder, files    *)
(* and folders are what is on disk.                                          *)
(***************************************************************************)
CONSTANT Accented  \* the paths with a letter outside ASCII

\* tinyfd_winUtf8 is 1: the wide characters of a path are handed on in UTF-8.
\* The C library of the callers takes them for the system's code page, in which
\* they are another path, of no file, unless they are all ASCII.
Answer(p) == [path |-> p, readable |-> p \notin Accented]

\* tinyfiledialogs itself takes an answer back from UTF-8 before it looks.
DirExists(folders, a) == a.path \in folders
FileExists(files, a) == a.path \in files

\* Of several files chosen, those that are there.
EnsureFilesExist(files, answers) == {a \in answers : FileExists(files, a)}

\* Any name, there already or not, in a folder that exists.
SaveFileDialogW(folderOf, folders) == {p \in DOMAIN folderOf : folderOf[p] \in folders}
SaveFileDialogWinGui(folderOf, folders) ==
  {Answer(p) : p \in SaveFileDialogW(folderOf, folders)}
SaveFileDialog(folderOf, folders) ==
  {a \in SaveFileDialogWinGui(folderOf, folders) : DirExists(folders, Answer(folderOf[a.path]))}

\* A file, or several, which have to exist.
OpenFileDialogW(places, files) == places \cap files
OpenFileDialogWinGui(places, files) == {Answer(p) : p \in OpenFileDialogW(places, files)}
OpenFileDialog(places, files) ==
  {a \in OpenFileDialogWinGui(places, files) : FileExists(files, a)}
OpenFilesDialog(places, files) ==
  {EnsureFilesExist(files, answers) :
     answers \in SUBSET OpenFileDialogWinGui(places, files) \ {{}}}

SelectFolderDialogW(folders) == folders
SelectFolderDialogWinGui(folders) == {Answer(d) : d \in SelectFolderDialogW(folders)}
SelectFolderDialog(folders) ==
  {a \in SelectFolderDialogWinGui(folders) : DirExists(folders, a)}
=============================================================================
