---------------------------- MODULE ReplacedFile ----------------------------
(***************************************************************************)
(* A JSON file that is replaced as a whole: a temporary file is opened and *)
(* truncated, written, and renamed. writeSnapshot of src/core/market-      *)
(* universe.js has one name for the temporary files of all its writers;    *)
(* writeJson of src/app/optimize.js and writeJsonAtomic of src/app/        *)
(* strategy-settings.js give each its own. A descriptor follows its file   *)
(* when it is renamed, and lives on when it is replaced.                   *)
(***************************************************************************)

CONSTANTS
  Writer,   \* the processes that write the file
  Name,     \* names of temporary files
  NameOf,   \* NameOf[w] \in Name: the one that w uses
  Content,  \* what may be written: never "absent" or "torn"
  Cleans    \* does a failed write remove the temporary file?

VARIABLES
  file,    \* what is under the name of the file
  temp,    \* temp[n]: what is under that temporary name
  fd,      \* fd[w]: the write of w that is under way
  overlap  \* did two writers have the same temporary file open? (history)

fileVars == <<file, temp, fd, overlap>>

Closed == [step |-> "closed", at |-> "gone", new |-> "absent", shared |-> FALSE]

Init ==
  /\ file = "absent"
  /\ temp = [n \in Name |-> "absent"]
  /\ fd = [w \in Writer |-> Closed]
  /\ overlap = FALSE

(* The other writers whose descriptor is that of the temporary file of w.  *)
With(w) == {v \in Writer \ {w} : fd[v].at = "temp" /\ NameOf[v] = NameOf[w]}

(* fs.writeFile opens and truncates the temporary file.                    *)
Open(w, content) ==
  /\ fd[w].step = "closed"
  /\ temp' = [temp EXCEPT ![NameOf[w]] = "torn"]
  /\ fd' = [v \in Writer |->
              IF v = w THEN [step |-> "opened", at |-> "temp", new |-> content,
                             shared |-> With(w) # {}]
              ELSE IF v \in With(w) THEN [fd[v] EXCEPT !.shared = TRUE] ELSE fd[v]]
  /\ overlap' = (overlap \/ With(w) # {})
  /\ UNCHANGED file

(* ... and writes it. Two writes of one file may leave a mixture.          *)
Fill(w) ==
  /\ fd[w].step = "opened"
  /\ fd' = [fd EXCEPT ![w].step = "filled"]
  /\ \E result \in {fd[w].new} \union (IF fd[w].shared THEN {"torn"} ELSE {}) :
       /\ temp' = IF fd[w].at = "temp" THEN [temp EXCEPT ![NameOf[w]] = result] ELSE temp
       /\ file' = IF fd[w].at = "file" THEN result ELSE file
  /\ UNCHANGED overlap

(* Descriptors move along when the temporary file n becomes the file.      *)
Moved(n) ==
  [v \in Writer |->
     IF fd[v].at = "temp" /\ NameOf[v] = n THEN [fd[v] EXCEPT !.at = "file"]
     ELSE IF fd[v].at = "file" THEN [fd[v] EXCEPT !.at = "gone"] ELSE fd[v]]

(* Mutant: the writing is not awaited.                                     *)
RenameUnfilled(w) ==
  /\ fd[w].step \in {"opened", "filled"} /\ temp[NameOf[w]] # "absent"
  /\ file' = temp[NameOf[w]]
  /\ temp' = [temp EXCEPT ![NameOf[w]] = "absent"]
  /\ fd' = [Moved(NameOf[w]) EXCEPT ![w] = Closed]
  /\ UNCHANGED overlap

Rename(w) ==
  /\ fd[w].step = "filled" /\ temp[NameOf[w]] # "absent"
  /\ file' = temp[NameOf[w]]
  /\ temp' = [temp EXCEPT ![NameOf[w]] = "absent"]
  /\ fd' = [Moved(NameOf[w]) EXCEPT ![w] = Closed]
  /\ UNCHANGED overlap

(* A write or the renaming fails: another writer has renamed the temporary *)
(* file, or the disk is full.                                              *)
Fail(w) ==
  /\ fd[w].step # "closed"
  /\ temp' = IF Cleans THEN [temp EXCEPT ![NameOf[w]] = "absent"] ELSE temp
  /\ fd' = [v \in Writer |->
              IF v = w THEN Closed
              ELSE IF Cleans /\ v \in With(w) THEN [fd[v] EXCEPT !.at = "gone"] ELSE fd[v]]
  /\ UNCHANGED <<file, overlap>>

(* The writer is killed.                                                   *)
Abandon(w) ==
  /\ fd' = [fd EXCEPT ![w] = Closed]
  /\ UNCHANGED <<file, temp, overlap>>

Next ==
  \E w \in Writer :
    \/ \E content \in Content : Open(w, content)
    \/ Fill(w) \/ Rename(w) \/ Fail(w) \/ Abandon(w)

Spec == Init /\ [][Next]_fileVars
-----------------------------------------------------------------------------
TypeOK ==
  /\ file \in Content \union {"absent", "torn"}
  /\ temp \in [Name -> Content \union {"absent", "torn"}]
  /\ fd \in [Writer -> [step : {"closed", "opened", "filled"},
                        at : {"temp", "file", "gone"},
                        new : Content \union {"absent"}, shared : BOOLEAN]]
  /\ overlap \in BOOLEAN

(* Whoever opens the file finds all of one snapshot, unless two writers had*)
(* the same temporary file open at once.                                   *)
WholeUnlessShared == file = "torn" => overlap
=============================================================================
