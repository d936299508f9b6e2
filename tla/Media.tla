-------------------------------- MODULE Media --------------------------------
(***************************************************************************)
(* The image files of events.  Columns of translations and themes name     *)
(* files in a storage that knows nothing of transactions: a file is there  *)
(* as soon as it is put, whatever becomes of the transaction, and signals  *)
(* delete files that are no longer named only after the commit.            *)
(*                                                                         *)
(* The event's add and change form and each deletion run in a transaction  *)
(* (READ COMMITTED).  save_model writes the event's row first, so that     *)
(* from there to the commit no other form and no deletion gets at the      *)
(* event; what signals read meanwhile is what the commit replaces.         *)
(***************************************************************************)
EXTENDS Naturals

CONSTANTS
  Workers,     \* threads, each running one request at a time
  Events,
  Banners,     \* banner_image columns, one for each language
  ThemeImages, \* background_image and logo_image
  Names,
  Directory,   \* upload_to: the names each column's files may get
  Forms,       \* what staff submit
  MaxRequests, \* bound on the number of requests
  None

Columns == Banners \cup ThemeImages

(* answer is what is submitted for each column; saved holds the columns    *)
(* that will be written: the banners of enabled languages, and those of    *)
(* the theme if anything in it has changed.                                *)
Form == [answer: [Columns -> {"keep", "clear", "upload"}], saved: SUBSET Columns]

ASSUME ConstantAssumption ==
  /\ Directory \in [Columns -> SUBSET Names]
  /\ Forms \subseteq Form
  /\ \A f \in Forms :
        \/ ThemeImages \subseteq f.saved
        \/ ThemeImages \cap f.saved = {} /\ \A c \in ThemeImages : f.answer[c] = "keep"
  /\ MaxRequests \in Nat
  /\ None \notin Names /\ None \notin Events /\ None \notin Form

VARIABLES
  alive,    \* events that are in the database
  issued,   \* ids the sequence has handed out
  images,   \* what each event's columns name
  files,    \* the storage
  req,      \* what each worker is doing
  begun,    \* number of requests so far
  left,     \* history: files that ended requests and stale deletions left
  raced     \* history: names given out while another request held them

database == <<alive, issued, images>>
vars == <<alive, issued, images, files, req, begun, left, raced>>

Blank == [c \in Columns |-> None]

ImageNames == [Columns -> Names \cup {None}]

Named(row) == {row[c] : c \in Columns} \ {None}

Steps == {"idle", "loaded", "cleaned", "saving", "putting",
          "delete_loaded", "committed", "deleting"}

(* loaded is the form's or the deletion's copy of the columns, new the     *)
(* names of files put so far, file the one being put or deleted, todo what *)
(* on_commit has left to look at.                                          *)
Request == [at: Steps, event: Events \cup {None}, form: Form \cup {None},
            loaded: ImageNames, new: ImageNames, file: Names \cup {None},
            todo: ImageNames]

Idle == [at |-> "idle", event |-> None, form |-> None, loaded |-> Blank,
         new |-> Blank, file |-> None, todo |-> Blank]

Referenced(n) == \E e \in Events, c \in Columns : images[e][c] = n

(* Migration 0004 made the one banner an event's theme used to have that   *)
(* of each translation it had: several columns name one file.              *)
CopiedToTranslations(banner, translated) ==
  [c \in Columns |-> IF c \in translated THEN banner ELSE None]

Init ==
  /\ issued \in SUBSET Events /\ alive = issued
  /\ \E banner \in [Events -> Names \cup {None}], translated \in [Events -> SUBSET Banners] :
       /\ \A e \in Events : banner[e] # None =>
            /\ e \in issued /\ \A c \in Banners : banner[e] \in Directory[c]
            /\ \A f \in Events \ {e} : banner[f] # banner[e]
       /\ images = [e \in Events |-> CopiedToTranslations(banner[e], translated[e])]
       /\ files = {banner[e] : e \in Events} \ {None}
  /\ req = [w \in Workers |-> Idle]
  /\ begun = 0
  /\ left = {n \in files : ~Referenced(n)} /\ raced = {}

Begin(w) == req[w].at = "idle" /\ begun < MaxRequests /\ begun' = begun + 1

(* The event's row is written by a transaction that is still open.         *)
Locked(e) == \E w \in Workers : req[w].at \in {"saving", "putting"} /\ req[w].event = e

-----------------------------------------------------------------------------
(* The add and change forms.                                               *)

Add(w, e, f) ==
  /\ Begin(w)
  /\ e \in Events \ issued
  /\ issued' = issued \cup {e}
  /\ req' = [req EXCEPT ![w] = [Idle EXCEPT !.at = "saving", !.event = e, !.form = f]]
  /\ UNCHANGED <<alive, images, files, left, raced>>

Load(w, e, f) ==
  /\ Begin(w)
  /\ e \in alive
  /\ req' = [req EXCEPT ![w] = [Idle EXCEPT !.at = "loaded", !.event = e, !.form = f,
                                            !.loaded = images[e]]]
  /\ UNCHANGED <<database, files, left, raced>>

Kept(r, c) == r.form.answer[c] = "keep" /\ r.loaded[c] # None

(* sanitize_image_upload reads and encodes every image anew, those that    *)
(* stay included: a missing one makes the form invalid.                    *)
Readable(r, c) == Kept(r, c) => r.loaded[c] \in files

BannersClean(r) == \A c \in Banners : Readable(r, c)
ThemeClean(r) == \A c \in ThemeImages : Readable(r, c)

(* Both forms are valid, and save_model reads the event for previous_data. *)
Clean(w) ==
  LET r == req[w] IN
  /\ r.at = "loaded"
  /\ BannersClean(r) /\ ThemeClean(r)
  /\ r.event \in alive
  /\ req' = [req EXCEPT ![w].at = "cleaned"]
  /\ UNCHANGED <<database, files, begun, left, raced>>

(* The event's UPDATE waits for other transactions that wrote the row.     *)
Lock(w) ==
  /\ req[w].at = "cleaned"
  /\ ~Locked(req[w].event)
  /\ req' = [req EXCEPT ![w].at = "saving"]
  /\ UNCHANGED <<database, files, begun, left, raced>>

(* Images are put under a new name even if they stay; a banner that was    *)
(* blank and stays so is not written, while a theme is written whole.      *)
Puts(r) == {c \in r.form.saved : r.form.answer[c] = "upload" \/ Kept(r, c)}

Blanks(r) == {c \in r.form.saved \ Puts(r) : r.form.answer[c] = "clear" \/ c \in ThemeImages}

(* The names a request has put, is about to look at or to delete, and the  *)
(* names it may come to delete.                                            *)
Pending(r) == Named(r.new) \cup Named(r.todo) \cup {r.file}
Held(r) == Pending(r) \cup (IF r.at = "delete_loaded" THEN Named(r.loaded) ELSE {})

(* Storage.save: get_available_name looks for a name that is free.  The    *)
(* object storage does not claim it.                                       *)
Name(w, c, n) ==
  LET r == req[w] IN
  /\ r.at = "saving" /\ c \in Puts(r) /\ r.new[c] = None
  /\ n \in Directory[c] \ files
  /\ req' = [req EXCEPT ![w].at = "putting", ![w].new[c] = n, ![w].file = n]
  /\ raced' = IF \E v \in Workers \ {w} : n \in Held(req[v]) THEN raced \cup {n} ELSE raced
  /\ UNCHANGED <<database, files, begun, left>>

Put(w) ==
  /\ req[w].at = "putting"
  /\ files' = files \cup {req[w].file}
  /\ req' = [req EXCEPT ![w].at = "saving", ![w].file = None]
  /\ UNCHANGED <<database, begun, left, raced>>

(* Fault: a cleared image is stored as the form's False.                   *)
WrittenFalse(r) ==
  [c \in Columns |-> IF c \in Puts(r) THEN r.new[c]
                     ELSE IF c \in Blanks(r) THEN FALSE ELSE images[r.event][c]]

(* The event's columns after the form's commit.                            *)
Written(r) ==
  [c \in Columns |-> IF c \in Puts(r) THEN r.new[c]
                     ELSE IF c \in Blanks(r) THEN None ELSE images[r.event][c]]

(* Fault: the theme's signal does not remember what is replaced.           *)
ReplacedBanners(r) ==
  [c \in Columns |-> IF c \in ThemeImages \/ Written(r)[c] = images[r.event][c] THEN None
                     ELSE images[r.event][c]]

(* remember_replaced_images, for each column.                              *)
Replaced(r) ==
  [c \in Columns |-> IF Written(r)[c] = images[r.event][c] THEN None ELSE images[r.event][c]]

Commit(w) ==
  LET r == req[w] IN
  /\ r.at = "saving"
  /\ \A c \in Puts(r) : r.new[c] # None
  /\ images' = [images EXCEPT ![r.event] = Written(r)]
  /\ alive' = alive \cup {r.event}
  /\ req' = [req EXCEPT ![w] = [Idle EXCEPT !.at = "committed", !.todo = Replaced(r)]]
  /\ UNCHANGED <<issued, files, begun, left, raced>>

-----------------------------------------------------------------------------
(* Deletion of an event, on its page or in bulk.                           *)

(* The collector fetches the translations and the theme.                   *)
DeleteLoad(w, e) ==
  /\ Begin(w)
  /\ e \in alive
  /\ req' = [req EXCEPT ![w] = [Idle EXCEPT !.at = "delete_loaded", !.event = e,
                                            !.loaded = images[e]]]
  /\ UNCHANGED <<database, files, left, raced>>

(* The rows go, whatever they hold by now; what the copies name is to be   *)
(* deleted, also when another deletion has taken the rows already and this *)
(* one removes none.  (A row added since makes the foreign key fail:       *)
(* Abandon.)                                                               *)
DeleteCommit(w) ==
  LET r == req[w] IN
  /\ r.at = "delete_loaded"
  /\ r.event \in alive => ~Locked(r.event)
  /\ alive' = alive \ {r.event}
  /\ images' = [images EXCEPT ![r.event] = Blank]
  /\ left' = left \cup ((Named(images[r.event]) \ Named(r.loaded)) \cap files)
  /\ req' = [req EXCEPT ![w] = [Idle EXCEPT !.at = "committed", !.todo = r.loaded]]
  /\ UNCHANGED <<issued, files, begun, raced>>

-----------------------------------------------------------------------------
(* After the commit: delete_file, once for each column that named a file.  *)

Checked(r, c) == [r EXCEPT !.todo = [r.todo EXCEPT ![c] = None]]

ToDelete(r, c) ==
  [r EXCEPT !.todo = [r.todo EXCEPT ![c] = None], !.at = "deleting", !.file = r.todo[c]]

(* Fault: nobody asks whether another column names the file.               *)
CheckNothing(w, c) ==
  /\ req[w].at = "committed" /\ req[w].todo[c] # None
  /\ req' = [req EXCEPT ![w] = ToDelete(req[w], c)]
  /\ UNCHANGED <<database, files, begun, left, raced>>

CheckFile(w, c) ==
  /\ req[w].at = "committed" /\ req[w].todo[c] # None
  /\ req' = [req EXCEPT ![w] = IF Referenced(req[w].todo[c]) THEN Checked(req[w], c)
                               ELSE ToDelete(req[w], c)]
  /\ UNCHANGED <<database, files, begun, left, raced>>

DeleteFile(w) ==
  /\ req[w].at = "deleting"
  /\ files' = files \ {req[w].file}
  /\ left' = left \ {req[w].file}
  /\ req' = [req EXCEPT ![w].at = "committed", ![w].file = None]
  /\ UNCHANGED <<database, begun, raced>>

Finish(w) ==
  /\ req[w].at = "committed" /\ req[w].todo = Blank
  /\ req' = [req EXCEPT ![w] = Idle]
  /\ UNCHANGED <<database, files, begun, left, raced>>

(* An invalid form, an error of the database or the storage, a crash: an   *)
(* open transaction is rolled back, and callbacks not yet run are lost.    *)
Abandon(w) ==
  /\ req[w].at # "idle"
  /\ left' = left \cup (Pending(req[w]) \cap files)
  /\ req' = [req EXCEPT ![w] = Idle]
  /\ UNCHANGED <<database, files, begun, raced>>

FormStep(w) ==
  \/ \E e \in Events, f \in Forms : Add(w, e, f) \/ Load(w, e, f)
  \/ Clean(w) \/ Lock(w)
  \/ \E c \in Columns, n \in Names : Name(w, c, n)
  \/ Put(w) \/ Commit(w)

Next ==
  \E w \in Workers :
     \/ FormStep(w)
     \/ \E e \in Events : DeleteLoad(w, e)
     \/ DeleteCommit(w)
     \/ \E c \in Columns : CheckFile(w, c)
     \/ DeleteFile(w) \/ Finish(w) \/ Abandon(w)

Spec == Init /\ [][Next]_vars

-----------------------------------------------------------------------------
(* The types of the state.                                                 *)
TypeOK ==
  /\ alive \subseteq issued /\ issued \subseteq Events
  /\ images \in [Events -> ImageNames]
  /\ files \subseteq Names
  /\ req \in [Workers -> Request]
  /\ begun \in 0..MaxRequests
  /\ left \subseteq files
  /\ raced \subseteq Names

(* An image that is named is in the storage, whatever was rolled back or   *)
(* crashed, unless its name was given out while another request was about  *)
(* to put or to delete a file of that name: between _is_referenced and     *)
(* storage.delete, and between get_available_name and the put, nothing     *)
(* keeps the name.                                                         *)
ImagesStored ==
  \A e \in Events, c \in Columns :
     images[e][c] # None => images[e][c] \in files \cup raced

(* A file is named, or a request under way will see to it, or it was left  *)
(* behind by one that ended early or by a deletion that fetched the names  *)
(* before another request replaced them.                                   *)
FilesAccounted ==
  \A n \in files :
     \/ Referenced(n) \/ n \in left
     \/ \E w \in Workers : n \in Pending(req[w])
=============================================================================
