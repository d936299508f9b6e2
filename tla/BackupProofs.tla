---------------------------- MODULE BackupProofs ----------------------------
(***************************************************************************)
(* Proofs about Media, and about Backup on top of it, for any number of    *)
(* workers, events, columns, names, backups and restores.                  *)
(*                                                                         *)
(* Media: TypeInv comes first.  A name that is not in raced is named by    *)
(* columns or used by one request at a time (Exclusive): that is why       *)
(* nobody deletes its file while it is named.                              *)
(*                                                                         *)
(* Backup: what the first part shows of a request's step is used while the *)
(* site is up; while it is down there is no request, and the database and  *)
(* the files are those of the backup that is being restored.               *)
(***************************************************************************)
EXTENDS Backup, TLAPS

(* What a request's local variables hold at each step.                     *)
RequestOK(r, ids) ==
  /\ r.at \in {"loaded", "cleaned", "saving", "putting", "delete_loaded"}
       => r.event \in Events /\ r.event \in ids
  /\ r.at \in {"loaded", "cleaned", "saving", "putting"} => r.form \in Forms
  /\ r.at \in {"putting", "deleting"} <=> r.file # None
  /\ r.at = "putting" => r.file \in Named(r.new)
  /\ r.at \notin {"saving", "putting"} => r.new = Blank
  /\ r.at \notin {"committed", "deleting"} => r.todo = Blank
  /\ \A c \in Columns : r.new[c] # None => c \in Puts(r)

TypeInv ==
  /\ TypeOK
  /\ \A w \in Workers : RequestOK(req[w], issued)

LEMMA NamesOfRow ==
  ASSUME NEW row \in ImageNames
  PROVE  /\ Named(row) \subseteq Names
         /\ \A n \in Names : n \in Named(row) <=> \E c \in Columns : row[c] = n
BY ConstantAssumption DEF Named, ImageNames

LEMMA BlankRow == Blank \in ImageNames /\ Named(Blank) = {}
BY DEF Blank, ImageNames, Named

LEMMA IdleRequest == Idle \in Request /\ \A ids : RequestOK(Idle, ids)
BY BlankRow, ConstantAssumption DEF Idle, Request, RequestOK, Steps, Blank

(* Each step changes one request.                                          *)
LEMMA OneRequest ==
  ASSUME TypeInv, NEW w \in Workers, NEW r \in Request, RequestOK(r, issued'),
         req' = [req EXCEPT ![w] = r], issued \subseteq issued'
  PROVE  /\ req' \in [Workers -> Request]
         /\ \A v \in Workers : RequestOK(req'[v], issued')
<1>1. req \in [Workers -> Request] /\ \A v \in Workers : RequestOK(req[v], issued)
  BY DEF TypeInv, TypeOK
<1>2. \A v \in Workers : req'[v] = r \/ req'[v] = req[v]
  BY <1>1
<1>3. \A s : RequestOK(s, issued) => RequestOK(s, issued')
  BY DEF RequestOK
<1> QED BY <1>1, <1>2, <1>3

(* The rows that migration 0004 left.                                      *)
LEMMA MigratedRows ==
  ASSUME Init
  PROVE  /\ images \in [Events -> ImageNames] /\ files \subseteq Names
         /\ \A n \in Names : Referenced(n) => n \in files
         /\ left = {n \in files : ~Referenced(n)}
<1>1. PICK banner \in [Events -> Names \cup {None}], translated \in [Events -> SUBSET Banners] :
        /\ images = [e \in Events |-> CopiedToTranslations(banner[e], translated[e])]
        /\ files = {banner[e] : e \in Events} \ {None}
  BY DEF Init
<1>2. \A e \in Events : CopiedToTranslations(banner[e], translated[e]) \in ImageNames
  BY <1>1 DEF CopiedToTranslations, ImageNames
<1>3. \A e \in Events, c \in Columns : images[e][c] \in {None, banner[e]}
  BY <1>1 DEF CopiedToTranslations
<1>4. \A n \in Names : n # None
  BY ConstantAssumption
<1>5. \A n \in Names : Referenced(n) => n \in files
  BY <1>1, <1>3, <1>4 DEF Referenced
<1> QED BY <1>1, <1>2, <1>5 DEF Init

LEMMA TypeInit == Init => TypeInv
<1> SUFFICES ASSUME Init PROVE TypeInv
  OBVIOUS
<1>1. req \in [Workers -> Request] /\ \A w \in Workers : RequestOK(req[w], issued)
  BY IdleRequest DEF Init
<1> QED BY <1>1, MigratedRows, ConstantAssumption DEF Init, TypeInv, TypeOK

LEMMA TypeStep == TypeInv /\ [Next]_vars => TypeInv'
<1> SUFFICES ASSUME TypeInv, [Next]_vars PROVE TypeInv'
  OBVIOUS
<1> USE DEF database
<1> DEFINE Requests == /\ req' \in [Workers -> Request]
                       /\ \A v \in Workers : RequestOK(req'[v], issued')
<1>0. /\ \A w \in Workers : RequestOK(req[w], issued) /\ req[w] \in Request
      /\ req \in [Workers -> Request]
      /\ alive \subseteq issued /\ issued \subseteq Events
      /\ images \in [Events -> ImageNames]
      /\ None \notin Names /\ None \notin Events /\ None \notin Form
      /\ Forms \subseteq Form
  BY ConstantAssumption DEF TypeInv, TypeOK
<1>1. ASSUME NEW w \in Workers, NEW e \in Events, NEW f \in Forms, Add(w, e, f)
      PROVE  TypeInv'
  <2> DEFINE r == [Idle EXCEPT !.at = "saving", !.event = e, !.form = f]
  <2>1. r \in Request
    BY <1>0, IdleRequest DEF Request, Steps, Idle
  <2>2. RequestOK(r, issued')
    BY <1>1, <1>0 DEF Add, RequestOK, Idle, Blank
  <2>3. Requests
    BY <1>1, <2>1, <2>2, OneRequest DEF Add
  <2>4. alive \subseteq issued' /\ issued' \subseteq Events
    BY <1>1, <1>0 DEF Add
  <2>5. begun' \in 0..MaxRequests
    BY <1>1, ConstantAssumption DEF Add, Begin, TypeInv, TypeOK
  <2> HIDE DEF r
  <2> QED BY <1>1, <2>3, <2>4, <2>5 DEF Add, TypeInv, TypeOK
<1>2. ASSUME NEW w \in Workers, NEW e \in Events, NEW f \in Forms, Load(w, e, f)
      PROVE  TypeInv'
  <2> DEFINE r == [Idle EXCEPT !.at = "loaded", !.event = e, !.form = f, !.loaded = images[e]]
  <2>1. r \in Request
    BY <1>0, IdleRequest DEF Request, Steps, Idle
  <2>2. RequestOK(r, issued')
    BY <1>2, <1>0 DEF Load, RequestOK, Idle, Blank
  <2>3. Requests
    BY <1>2, <2>1, <2>2, OneRequest DEF Load
  <2> QED BY <1>2, <2>3, ConstantAssumption DEF Load, Begin, TypeInv, TypeOK
<1>3. ASSUME NEW w \in Workers, Clean(w) PROVE TypeInv'
  <2> DEFINE r == [req[w] EXCEPT !.at = "cleaned"]
  <2>1. r \in Request
    BY <1>0 DEF Request, Steps
  <2>2. RequestOK(r, issued')
    BY <1>3, <1>0 DEF Clean, RequestOK, Puts, Kept, Request
  <2>3. Requests
    BY <1>3, <2>1, <2>2, OneRequest, <1>0 DEF Clean, TypeInv, TypeOK
  <2> QED BY <1>3, <2>3 DEF Clean, TypeInv, TypeOK
<1>4. ASSUME NEW w \in Workers, Lock(w) PROVE TypeInv'
  <2> DEFINE r == [req[w] EXCEPT !.at = "saving"]
  <2>1. r \in Request
    BY <1>0 DEF Request, Steps
  <2>2. RequestOK(r, issued')
    BY <1>4, <1>0 DEF Lock, RequestOK, Puts, Kept, Request
  <2>3. Requests
    BY <1>4, <2>1, <2>2, OneRequest, <1>0 DEF Lock
  <2> QED BY <1>4, <2>3 DEF Lock, TypeInv, TypeOK
<1>5. ASSUME NEW w \in Workers, NEW c \in Columns, NEW n \in Names, Name(w, c, n)
      PROVE  TypeInv'
  <2> DEFINE r == [req[w] EXCEPT !.at = "putting", !.new[c] = n, !.file = n]
  <2>a. [req[w].new EXCEPT ![c] = n] \in ImageNames
    <3>1. req[w].new \in [Columns -> Names \cup {None}]
      BY <1>0 DEF Request, ImageNames
    <3> QED BY <3>1 DEF ImageNames
  <2>b. r = [req[w] EXCEPT !.at = "putting", !.new = [req[w].new EXCEPT ![c] = n], !.file = n]
    OBVIOUS
  <2>1. r \in Request
    <3> DEFINE new == [req[w].new EXCEPT ![c] = n]
    <3> HIDE DEF r, new
    <3>1. r = [req[w] EXCEPT !.at = "putting", !.new = new, !.file = n] /\ new \in ImageNames
      BY <2>a, <2>b DEF new
    <3> QED BY <3>1, <1>0 DEF Request, Steps
  <2>2. r.new[c] = n /\ r.file = n /\ r.at = "putting" /\ r.todo = req[w].todo
        /\ r.event = req[w].event /\ r.form = req[w].form /\ r.loaded = req[w].loaded
        /\ \A d \in Columns : d # c => r.new[d] = req[w].new[d]
    BY <1>0 DEF Request, ImageNames
  <2>3. RequestOK(r, issued')
    BY <1>5, <1>0, <2>2 DEF Name, RequestOK, Puts, Kept, Named
  <2>4. Requests
    <3>1. req' = [req EXCEPT ![w] = r] /\ issued' = issued
      <4>1. req' = [req EXCEPT ![w] = [[[req[w] EXCEPT !.at = "putting"]
                                           EXCEPT !.new[c] = n] EXCEPT !.file = n]]
        BY <1>5, <1>0 DEF Name, Request
      <4> QED BY <1>5, <4>1 DEF Name
    <3> QED BY <2>1, <2>3, <3>1, OneRequest
  <2> QED BY <1>5, <2>4 DEF Name, TypeInv, TypeOK
<1>6. ASSUME NEW w \in Workers, Put(w) PROVE TypeInv'
  <2> DEFINE r == [req[w] EXCEPT !.at = "saving", !.file = None]
  <2>1. r \in Request
    BY <1>0 DEF Request, Steps
  <2>2. RequestOK(r, issued')
    BY <1>6, <1>0 DEF Put, RequestOK, Puts, Kept, Request
  <2>3. Requests
    <3>1. req' = [req EXCEPT ![w] = r] /\ issued' = issued
      BY <1>6, <1>0 DEF Put
    <3> QED BY <2>1, <2>2, <3>1, OneRequest
  <2>4. req[w].file \in Names
    BY <1>6, <1>0 DEF Put, RequestOK, Request
  <2> QED BY <1>6, <2>3, <2>4 DEF Put, TypeInv, TypeOK
<1>7. ASSUME NEW w \in Workers, Commit(w) PROVE TypeInv'
  <2>1. req[w].event \in Events /\ req[w].event \in issued /\ req[w].new \in ImageNames
    BY <1>7, <1>0 DEF Commit, RequestOK, Request
  <2>2. Written(req[w]) \in ImageNames
    BY <2>1, <1>0 DEF Written, ImageNames
  <2>3. Replaced(req[w]) \in ImageNames
    BY <2>1, <1>0 DEF Replaced, ImageNames
  <2> DEFINE r == [Idle EXCEPT !.at = "committed", !.todo = Replaced(req[w])]
  <2>4. r \in Request
    BY <2>3, IdleRequest DEF Request, Steps, Idle
  <2>5. RequestOK(r, issued')
    BY DEF RequestOK, Idle, Blank
  <2>6. Requests
    BY <1>7, <2>4, <2>5, OneRequest DEF Commit
  <2> QED BY <1>7, <1>0, <2>1, <2>2, <2>6 DEF Commit, TypeInv, TypeOK
<1>8. ASSUME NEW w \in Workers, NEW e \in Events, DeleteLoad(w, e) PROVE TypeInv'
  <2> DEFINE r == [Idle EXCEPT !.at = "delete_loaded", !.event = e, !.loaded = images[e]]
  <2>1. r \in Request
    BY <1>0, IdleRequest DEF Request, Steps, Idle
  <2>2. RequestOK(r, issued')
    BY <1>8, <1>0 DEF DeleteLoad, RequestOK, Idle, Blank
  <2>3. Requests
    BY <1>8, <2>1, <2>2, OneRequest DEF DeleteLoad
  <2> QED BY <1>8, <2>3, ConstantAssumption DEF DeleteLoad, Begin, TypeInv, TypeOK
<1>9. ASSUME NEW w \in Workers, DeleteCommit(w) PROVE TypeInv'
  <2> DEFINE r == [Idle EXCEPT !.at = "committed", !.todo = req[w].loaded]
  <2>1. r \in Request
    BY <1>0, IdleRequest DEF Request, Steps, Idle
  <2>2. RequestOK(r, issued')
    BY DEF RequestOK, Idle, Blank
  <2>3. Requests
    BY <1>9, <2>1, <2>2, OneRequest DEF DeleteCommit
  <2> QED BY <1>9, <1>0, <2>3, BlankRow DEF DeleteCommit, TypeInv, TypeOK
<1>10. ASSUME NEW w \in Workers, NEW c \in Columns, CheckFile(w, c) PROVE TypeInv'
  <2>1. /\ [req[w].todo EXCEPT ![c] = None] \in ImageNames
        /\ req[w].todo[c] \in Names /\ req[w].at = "committed"
    BY <1>10, <1>0 DEF CheckFile, Request, ImageNames
  <2>2. PICK r \in Request : req' = [req EXCEPT ![w] = r] /\ RequestOK(r, issued)
    <3> DEFINE todo == [req[w].todo EXCEPT ![c] = None]
               s == [req[w] EXCEPT !.todo = todo]
               t == [req[w] EXCEPT !.todo = todo, !.at = "deleting", !.file = req[w].todo[c]]
    <3>1. s \in Request /\ t \in Request
      BY <1>0, <2>1 DEF Request, Steps
    <3>2. RequestOK(s, issued) /\ RequestOK(t, issued)
      BY <1>0, <2>1 DEF RequestOK, Puts, Kept, Request, Blank
    <3>3. req' = [req EXCEPT ![w] = s] \/ req' = [req EXCEPT ![w] = t]
      BY <1>10, <1>0 DEF CheckFile, Checked, ToDelete
    <3> QED BY <3>1, <3>2, <3>3
  <2>3. Requests
    BY <1>10, <2>2, OneRequest DEF CheckFile
  <2> QED BY <1>10, <2>3 DEF CheckFile, TypeInv, TypeOK
<1>11. ASSUME NEW w \in Workers, DeleteFile(w) PROVE TypeInv'
  <2> DEFINE r == [req[w] EXCEPT !.at = "committed", !.file = None]
  <2>1. r \in Request
    BY <1>0 DEF Request, Steps
  <2>2. RequestOK(r, issued')
    BY <1>11, <1>0 DEF DeleteFile, RequestOK, Puts, Kept, Request, Blank
  <2>3. Requests
    <3>1. req' = [req EXCEPT ![w] = r] /\ issued' = issued
      BY <1>11, <1>0 DEF DeleteFile
    <3> QED BY <2>1, <2>2, <3>1, OneRequest
  <2> QED BY <1>11, <2>3 DEF DeleteFile, TypeInv, TypeOK
<1>12. ASSUME NEW w \in Workers, Finish(w) PROVE TypeInv'
  <2>1. Requests
    BY <1>12, IdleRequest, OneRequest DEF Finish
  <2> QED BY <1>12, <2>1 DEF Finish, TypeInv, TypeOK
<1>13. ASSUME NEW w \in Workers, Abandon(w) PROVE TypeInv'
  <2>1. Requests
    BY <1>13, IdleRequest, OneRequest DEF Abandon
  <2> QED BY <1>13, <2>1 DEF Abandon, TypeInv, TypeOK
<1>14. ASSUME UNCHANGED vars PROVE TypeInv'
  BY <1>14, <1>0 DEF vars, TypeInv, TypeOK
<1> QED
  BY <1>1, <1>2, <1>3, <1>4, <1>5, <1>6, <1>7, <1>8, <1>9, <1>10, <1>11, <1>12,
     <1>13, <1>14 DEF Next, FormStep

(* Every variable keeps its type, and requests what their step promises.   *)
THEOREM TypesAndRequests == Spec => []TypeInv
<1> QED BY TypeInit, TypeStep, PTL DEF Spec

(* Every variable of Media keeps its type.                                 *)
THEOREM TypeCorrect == Spec => []TypeOK
<1>1. TypeInv => TypeOK
  BY DEF TypeInv
<1> QED BY <1>1, TypesAndRequests, PTL

-----------------------------------------------------------------------------
(* FilesAccounted is inductive as it stands.                               *)

LEMMA CommitNames ==
  ASSUME TypeInv, NEW w \in Workers, Commit(w)
  PROVE  /\ req[w].event \in Events /\ req[w].event \in DOMAIN images
         /\ \A c \in Columns : images'[req[w].event][c] = Written(req[w])[c]
         /\ \A e \in Events \ {req[w].event} : images'[e] = images[e]
         /\ \A n \in Names : n \in Named(req[w].new)
                             => \E c \in Columns : images'[req[w].event][c] = n
         /\ \A n \in Names, c \in Columns :
               images'[req[w].event][c] = n
                 => images[req[w].event][c] = n \/ n \in Named(req[w].new)
         /\ \A n \in Names : n \in Named(Replaced(req[w]))
               <=> \E c \in Columns : /\ images[req[w].event][c] = n
                                      /\ images'[req[w].event][c] # n
<1> DEFINE r == req[w]
<1>1. /\ r \in Request /\ RequestOK(r, issued) /\ images \in [Events -> ImageNames]
      /\ r.at = "saving" /\ images' = [images EXCEPT ![r.event] = Written(r)]
  BY DEF Commit, TypeInv, TypeOK
<1>2. r.event \in Events /\ r.new \in ImageNames
  BY <1>1 DEF RequestOK, Request
<1>3. images[r.event] \in ImageNames
  BY <1>1, <1>2
<1>4. Written(r) \in ImageNames
  BY <1>2, <1>3, ConstantAssumption DEF Written, ImageNames
<1>5. images'[r.event] = Written(r)
  BY <1>1, <1>2
<1>6. \A n \in Names : n # None
  BY ConstantAssumption
<1>7. \A c \in Columns : r.new[c] # None => Written(r)[c] = r.new[c]
  BY <1>1 DEF RequestOK, Written
<1>8. \A c \in Columns : \/ Written(r)[c] = None
                          \/ Written(r)[c] = r.new[c]
                          \/ Written(r)[c] = images[r.event][c]
  BY DEF Written
<1> HIDE DEF r
<1>9. \A n \in Names : n \in Named(r.new) => \E c \in Columns : images'[r.event][c] = n
  BY <1>2, <1>5, <1>6, <1>7, NamesOfRow
<1>10. \A n \in Names, c \in Columns :
          images'[r.event][c] = n => images[r.event][c] = n \/ n \in Named(r.new)
  BY <1>2, <1>5, <1>6, <1>8, NamesOfRow
<1>11. \A n \in Names : n \in Named(Replaced(r))
          <=> \E c \in Columns : images[r.event][c] = n /\ images'[r.event][c] # n
  BY <1>5, <1>6 DEF Replaced, Named
<1>12. \A e \in Events \ {r.event} : images'[e] = images[e]
  BY <1>1
<1> QED BY <1>1, <1>2, <1>5, <1>9, <1>10, <1>11, <1>12 DEF r

LEMMA AccountStep == TypeInv /\ FilesAccounted /\ [Next]_vars => FilesAccounted'
<1> SUFFICES ASSUME TypeInv, FilesAccounted, [Next]_vars, NEW n \in files'
             PROVE  (\/ Referenced(n) \/ n \in left
                     \/ \E w \in Workers : n \in Pending(req[w]))'
  BY DEF FilesAccounted
<1> DEFINE Accounted == \/ Referenced(n) \/ n \in left
                        \/ \E w \in Workers : n \in Pending(req[w])
<1> USE DEF database
<1>0. /\ req \in [Workers -> Request] /\ \A w \in Workers : RequestOK(req[w], issued)
      /\ files \subseteq Names /\ None \notin Names
      /\ n \in files => Accounted
  BY ConstantAssumption DEF TypeInv, TypeOK, FilesAccounted
<1>a. n \in Names
  BY TypeStep DEF TypeInv, TypeOK
(* A request that leaves Idle or changes its step keeps what it has.       *)
<1>b. ASSUME NEW w \in Workers, NEW r, req' = [req EXCEPT ![w] = r],
             n \in Pending(req[w]) => n \in Pending(r),
             images' = images, files' = files, left' = left
      PROVE  Accounted'
  BY <1>0, <1>b DEF Referenced
<1>1. ASSUME NEW w \in Workers, NEW e \in Events, NEW f \in Forms,
             Add(w, e, f) \/ Load(w, e, f)
      PROVE  Accounted'
  <2>1. n \notin Pending(req[w])
    BY <1>0, <1>1, <1>a, BlankRow DEF Add, Load, Begin, RequestOK, Pending
  <2> QED BY <1>1, <1>b, <2>1 DEF Add, Load
<1>2. ASSUME NEW w \in Workers, Clean(w) \/ Lock(w) PROVE Accounted'
  <2>1. \A s : Pending([req[w] EXCEPT !.at = s]) = Pending(req[w])
    BY <1>0 DEF Pending, Request
  <2> QED BY <1>2, <1>b, <2>1 DEF Clean, Lock
<1>3. ASSUME NEW w \in Workers, NEW c \in Columns, NEW m \in Names, Name(w, c, m)
      PROVE  Accounted'
  <2> DEFINE r == [req[w] EXCEPT !.at = "putting", !.new[c] = m, !.file = m]
  <2>1. req' = [req EXCEPT ![w] = r]
    <3>1. req' = [req EXCEPT ![w] = [[[req[w] EXCEPT !.at = "putting"]
                                         EXCEPT !.new[c] = m] EXCEPT !.file = m]]
      BY <1>3, <1>0 DEF Name, Request
    <3> QED BY <1>3, <3>1
  <2>2. /\ r.todo = req[w].todo /\ r.file = m /\ req[w].new[c] = None /\ req[w].file = None
        /\ \A d \in Columns : d # c => r.new[d] = req[w].new[d]
    BY <1>3, <1>0 DEF Name, RequestOK, Request, ImageNames
  <2>3. n \in Pending(req[w]) => n \in Pending(r)
    BY <1>a, <1>0, <2>2 DEF Pending, Named
  <2> QED BY <1>3, <1>b, <2>1, <2>3 DEF Name
<1>4. ASSUME NEW w \in Workers, Put(w) PROVE Accounted'
  <2> DEFINE r == [req[w] EXCEPT !.at = "saving", !.file = None]
  <2>1. /\ req' = [req EXCEPT ![w] = r]
        /\ r.new = req[w].new /\ r.todo = req[w].todo /\ req[w].file \in Named(req[w].new)
    BY <1>4, <1>0 DEF Put, RequestOK, Request
  <2>2. req'[w] = r /\ \A v \in Workers : v # w => req'[v] = req[v]
    BY <2>1, <1>0
  <2>3. n \in Pending(req[w]) => n \in Pending(r)
    BY <2>1 DEF Pending
  <2>4. n \in Pending(r) \/ n \in files
    BY <1>4, <2>1 DEF Put, Pending
  <2> HIDE DEF r
  <2> QED BY <1>4, <1>0, <2>2, <2>3, <2>4 DEF Put, Referenced
<1>5. ASSUME NEW w \in Workers, Commit(w) PROVE Accounted'
  <2> DEFINE r == req[w]
  <2>1. req' = [req EXCEPT ![w] = [Idle EXCEPT !.at = "committed", !.todo = Replaced(r)]]
        /\ UNCHANGED <<files, left>> /\ r.at = "saving"
    BY <1>5 DEF Commit
  <2>2. Named(Replaced(r)) \subseteq Pending(req'[w]) /\ \A v \in Workers : v # w => req'[v] = req[v]
    BY <2>1, <1>0 DEF Idle, Pending
  <2>3. r.todo = Blank /\ r.file = None
    BY <2>1, <1>0 DEF RequestOK
  <2>4. CASE n \in Pending(r)
    <3>1. n \in Named(r.new)
      BY <1>a, <1>0, <2>3, <2>4, BlankRow DEF Pending
    <3> QED BY <1>5, <1>a, <3>1, CommitNames DEF Referenced
  <2>5. CASE Referenced(n)
    <3>1. PICK e \in Events, c \in Columns : images[e][c] = n
      BY <2>5 DEF Referenced
    <3>2. CASE e # r.event
      BY <1>5, <3>1, <3>2, CommitNames DEF Referenced
    <3>3. CASE e = r.event
      BY <1>5, <1>a, <2>2, <3>1, <3>3, CommitNames DEF Referenced
    <3> QED BY <3>2, <3>3
  <2>6. CASE n \in left
    BY <2>1, <2>6
  <2>7. CASE \E v \in Workers \ {w} : n \in Pending(req[v])
    BY <2>2, <2>7
  <2> QED BY <1>0, <2>1, <2>4, <2>5, <2>6, <2>7
<1>6. ASSUME NEW w \in Workers, NEW e \in Events, DeleteLoad(w, e) PROVE Accounted'
  <2>1. n \notin Pending(req[w])
    BY <1>0, <1>6, <1>a, BlankRow DEF DeleteLoad, Begin, RequestOK, Pending
  <2> QED BY <1>6, <1>b, <2>1 DEF DeleteLoad
<1>7. ASSUME NEW w \in Workers, DeleteCommit(w) PROVE Accounted'
  <2> DEFINE r == req[w]
  <2>1. /\ req' = [req EXCEPT ![w] = [Idle EXCEPT !.at = "committed", !.todo = r.loaded]]
        /\ images' = [images EXCEPT ![r.event] = Blank]
        /\ left' = left \cup ((Named(images[r.event]) \ Named(r.loaded)) \cap files)
        /\ files' = files /\ r.at = "delete_loaded"
    BY <1>7 DEF DeleteCommit
  <2>2. /\ Named(r.loaded) \subseteq Pending(req'[w])
        /\ \A v \in Workers : v # w => req'[v] = req[v]
    BY <2>1, <1>0 DEF Idle, Pending
  <2>3. n \notin Pending(r)
    BY <2>1, <1>0, <1>a, BlankRow DEF RequestOK, Pending
  <2>4. CASE Referenced(n)
    <3>1. PICK e \in Events, c \in Columns : images[e][c] = n
      BY <2>4 DEF Referenced
    <3>2. CASE e # r.event
      BY <2>1, <3>1, <3>2 DEF Referenced, TypeInv, TypeOK
    <3>3. CASE e = r.event
      BY <1>a, <1>0, <2>1, <2>2, <3>1, <3>3 DEF Named
    <3> QED BY <3>2, <3>3
  <2> HIDE DEF r
  <2> QED BY <1>0, <2>1, <2>2, <2>3, <2>4 DEF r
<1>8. ASSUME NEW w \in Workers, NEW c \in Columns, CheckFile(w, c) PROVE Accounted'
  <2>1. req[w].at = "committed" /\ req[w].file = None
    BY <1>8, <1>0 DEF CheckFile, RequestOK
  <2>2. /\ \A v \in Workers : v # w => req'[v] = req[v]
        /\ req'[w].new = req[w].new /\ files' = files
        /\ req'[w].todo = [req[w].todo EXCEPT ![c] = None]
        /\ Referenced(req[w].todo[c]) \/ req'[w].file = req[w].todo[c]
    <3>1. CASE Referenced(req[w].todo[c])
      BY <1>8, <1>0, <3>1 DEF CheckFile, Checked, Request
    <3>2. CASE ~Referenced(req[w].todo[c])
      BY <1>8, <1>0, <3>2 DEF CheckFile, ToDelete, Request
    <3> QED BY <3>1, <3>2
  <2>3. n \in Named(req[w].todo) => n \in Named(req'[w].todo) \/ n = req[w].todo[c]
    BY <1>0, <2>2 DEF Named, Request, ImageNames
  <2>4. n \in Pending(req[w]) => n \in Pending(req'[w]) \/ Referenced(n)
    BY <1>a, <1>0, <2>1, <2>2, <2>3 DEF Pending
  <2> QED BY <1>0, <1>8, <2>2, <2>4 DEF CheckFile, Referenced
<1>9. ASSUME NEW w \in Workers, DeleteFile(w) PROVE Accounted'
  <2>1. /\ req'[w] = [req[w] EXCEPT !.at = "committed", !.file = None]
        /\ \A v \in Workers : v # w => req'[v] = req[v]
        /\ n # req[w].file /\ n \in files /\ images' = images
        /\ left' = left \ {req[w].file}
    BY <1>9, <1>0 DEF DeleteFile, Request
  <2>2. n \in Pending(req[w]) => n \in Pending(req'[w])
    BY <1>0, <2>1 DEF Pending, Request
  <2> QED BY <1>0, <2>1, <2>2 DEF Referenced
<1>10. ASSUME NEW w \in Workers, Finish(w) PROVE Accounted'
  <2>1. n \notin Pending(req[w])
    BY <1>0, <1>10, <1>a, BlankRow DEF Finish, RequestOK, Pending
  <2> QED BY <1>10, <1>b, <2>1 DEF Finish
<1>11. ASSUME NEW w \in Workers, Abandon(w) PROVE Accounted'
  <2>1. /\ left' = left \cup (Pending(req[w]) \cap files)
        /\ \A v \in Workers : v # w => req'[v] = req[v]
        /\ images' = images /\ files' = files
    BY <1>11, <1>0 DEF Abandon
  <2> QED BY <1>0, <2>1 DEF Referenced
<1>12. ASSUME UNCHANGED vars PROVE Accounted'
  BY <1>12, <1>0 DEF vars, Referenced
<1> QED
  BY <1>1, <1>2, <1>3, <1>4, <1>5, <1>6, <1>7, <1>8, <1>9, <1>10, <1>11, <1>12
     DEF Next, FormStep

(* A file is named, or seen to by a request under way, or one of those     *)
(* that ended requests and stale deletions leave behind: whatever happens  *)
(* between a put, a commit and on_commit's callbacks, no other is lost     *)
(* sight of.                                                               *)
THEOREM FilesStayAccounted == Spec => []FilesAccounted
<1>1. Init => FilesAccounted
  BY MigratedRows DEF FilesAccounted
<1> QED BY <1>1, TypesAndRequests, AccountStep, PTL DEF Spec

-----------------------------------------------------------------------------
(* ImagesStored needs to know who may come to delete which file.           *)

(* What is true of a name that is not in raced: if a column names it, its  *)
(* file is there; who puts a file of that name is alone with it; what is   *)
(* about to be deleted is not named.                                       *)
Exclusive(n) ==
  /\ Referenced(n) => n \in files
  /\ \A w \in Workers : n \in Named(req[w].new) =>
        /\ ~Referenced(n)
        /\ n \in files \/ req[w].file = n
        /\ \A v \in Workers \ {w} : n \notin Held(req[v])
  /\ \A w \in Workers : req[w].at = "deleting" /\ req[w].file = n => ~Referenced(n)

ImagesInv ==
  /\ TypeInv
  /\ \A n \in Names \ raced : Exclusive(n)

LEMMA ImagesInit == Init => ImagesInv
<1> SUFFICES ASSUME Init, NEW n \in Names PROVE Exclusive(n)
  BY TypeInit DEF ImagesInv
<1>1. \A w \in Workers : req[w] = Idle
  BY DEF Init
<1> QED BY <1>1, MigratedRows, BlankRow DEF Exclusive, Idle

(* The database and the storage stay, and a request holds no names more    *)
(* than it did but such as columns name.                                   *)
LEMMA HoldsNoMore ==
  ASSUME ImagesInv, NEW w \in Workers, NEW n \in Names \ raced,
         \A v \in Workers : v # w => req'[v] = req[v],
         images' = images, files' = files,
         n \in Named(req'[w].new)
           => n \in Named(req[w].new) /\ (n \in files \/ req'[w].file = n),
         n \in Held(req'[w]) => n \in Held(req[w]) \/ Referenced(n),
         req'[w].at = "deleting" /\ req'[w].file = n => ~Referenced(n)
  PROVE  Exclusive(n)'
<1>1. Exclusive(n)
  BY DEF ImagesInv
<1> QED BY <1>1 DEF Exclusive, Referenced

LEMMA ExclusiveStep ==
  ASSUME ImagesInv, [Next]_vars, NEW n \in Names \ raced'
  PROVE  Exclusive(n)'
<1> USE DEF database
<1>0. /\ req \in [Workers -> Request] /\ \A w \in Workers : RequestOK(req[w], issued)
      /\ \A w \in Workers : req[w] \in Request
      /\ images \in [Events -> ImageNames] /\ files \subseteq Names
      /\ n # None /\ n \in Names
  BY ConstantAssumption DEF ImagesInv, TypeInv, TypeOK
<1>a. n \notin raced /\ Exclusive(n)
  <2>1. raced \subseteq raced'
    <3>1. \A w \in Workers, c \in Columns, m \in Names : Name(w, c, m) => raced \subseteq raced'
      BY DEF Name
    <3>2. UNCHANGED raced \/ \E w \in Workers, c \in Columns, m \in Names : Name(w, c, m)
      BY DEF Next, FormStep, Add, Load, Clean, Lock, Put, Commit, DeleteLoad,
             DeleteCommit, CheckFile, DeleteFile, Finish, Abandon, vars
    <3> QED BY <3>1, <3>2
  <2> QED BY <2>1 DEF ImagesInv
<1>1. ASSUME NEW w \in Workers, NEW e \in Events, NEW f \in Forms,
             Add(w, e, f) \/ Load(w, e, f)
      PROVE  Exclusive(n)'
  <2>1. req'[w].new = Blank /\ req'[w].todo = Blank /\ req'[w].file = None
        /\ req'[w].at \in {"saving", "loaded"}
        /\ images' = images /\ files' = files
        /\ \A v \in Workers : v # w => req'[v] = req[v]
    BY <1>0, <1>1 DEF Add, Load, Idle
  <2>2. n \notin Held(req'[w])
    BY <1>0, <2>1, BlankRow DEF Held, Pending
  <2> QED BY <1>0, <1>a, <2>1, <2>2, BlankRow, HoldsNoMore
<1>2. ASSUME NEW w \in Workers, Clean(w) \/ Lock(w) PROVE Exclusive(n)'
  <2>1. /\ req'[w].new = req[w].new /\ req'[w].todo = req[w].todo
        /\ req'[w].file = req[w].file /\ req'[w].at \in {"cleaned", "saving"}
        /\ req[w].at \in {"loaded", "cleaned"}
        /\ images' = images /\ files' = files
        /\ \A v \in Workers : v # w => req'[v] = req[v]
    BY <1>0, <1>2 DEF Clean, Lock, Request
  <2>2. Named(req[w].new) = {}
    BY <1>0, <2>1, BlankRow DEF RequestOK
  <2> QED BY <1>0, <1>a, <2>1, <2>2, HoldsNoMore DEF Held, Pending
<1>3. ASSUME NEW w \in Workers, NEW c \in Columns, NEW m \in Names, Name(w, c, m)
      PROVE  Exclusive(n)'
  <2>1. /\ req[w].at = "saving" /\ req[w].new[c] = None /\ m \notin files
        /\ images' = images /\ files' = files
        /\ raced' = IF \E v \in Workers \ {w} : m \in Held(req[v])
                    THEN raced \cup {m} ELSE raced
        /\ req' = [req EXCEPT ![w] = [[[req[w] EXCEPT !.at = "putting"]
                                           EXCEPT !.new[c] = m] EXCEPT !.file = m]]
    BY <1>3, <1>0 DEF Name, Request
  <2>2. /\ req'[w].todo = req[w].todo /\ req'[w].at = "putting" /\ req'[w].file = m
        /\ req'[w].new[c] = m
        /\ \A d \in Columns : d # c => req'[w].new[d] = req[w].new[d]
        /\ \A v \in Workers : v # w => req'[v] = req[v]
        /\ req[w].file = None
    <3>1. req[w].file = None
      BY <1>0, <2>1 DEF RequestOK
    <3>2. req[w] \in Request /\ req[w].new \in [Columns -> Names \cup {None}]
      BY <1>0 DEF Request, ImageNames
    <3>3. req'[w] = [[[req[w] EXCEPT !.at = "putting"] EXCEPT !.new[c] = m] EXCEPT !.file = m]
      BY <1>0, <2>1
    <3>4. /\ req'[w].todo = req[w].todo /\ req'[w].at = "putting" /\ req'[w].file = m
          /\ req'[w].new = [req[w].new EXCEPT ![c] = m]
      BY <3>2, <3>3 DEF Request
    <3> QED BY <1>0, <2>1, <3>1, <3>2, <3>4
  <2>3. n \in Named(req'[w].new) <=> n = m \/ n \in Named(req[w].new)
    BY <1>0, <2>1, <2>2 DEF Named
  <2>4. n \in Held(req'[w]) <=> n = m \/ n \in Held(req[w])
    BY <1>0, <2>1, <2>2, <2>3 DEF Held, Pending
  <2>5. CASE n # m
    <3>1. n \in Named(req[w].new) => n \in files
      BY <1>0, <1>a, <2>2 DEF Exclusive
    <3> QED BY <1>0, <1>a, <2>1, <2>2, <2>3, <2>4, <2>5, <3>1, HoldsNoMore
  <2>6. CASE n = m
    <3>1. ~Referenced(n) /\ \A v \in Workers \ {w} : n \notin Held(req[v])
      BY <1>a, <2>1, <2>6 DEF Exclusive
    <3>2. \A v \in Workers \ {w} : n \notin Named(req[v].new) /\ req[v].file # n
      BY <3>1 DEF Held, Pending
    <3> QED BY <1>a, <2>1, <2>2, <2>6, <3>1, <3>2 DEF Exclusive, Referenced
  <2> QED BY <2>5, <2>6
<1>4. ASSUME NEW w \in Workers, Put(w) PROVE Exclusive(n)'
  <2>1. /\ req'[w] = [req[w] EXCEPT !.at = "saving", !.file = None]
        /\ \A v \in Workers : v # w => req'[v] = req[v]
        /\ images' = images /\ files' = files \cup {req[w].file} /\ req[w].at = "putting"
    BY <1>4, <1>0 DEF Put, Request
  <2>2. /\ req'[w].new = req[w].new /\ req'[w].todo = req[w].todo /\ req'[w].at = "saving"
        /\ req'[w].file = None
    BY <1>0, <2>1 DEF Request, RequestOK
  <2>3. \A v \in Workers : n \in Held(req'[v]) => n \in Held(req[v])
    BY <1>0, <2>1, <2>2 DEF Held, Pending
  <2>a. \A v \in Workers : /\ req'[v].new = req[v].new
                           /\ req'[v].file # n => req[v].file # n \/ n \in files'
    BY <2>1, <2>2
  <2>4. \A v \in Workers : n \in Named(req'[v].new) =>
           /\ ~Referenced(n) /\ (n \in files' \/ req'[v].file = n)
           /\ \A u \in Workers \ {v} : n \notin Held(req'[u])
    BY <1>a, <2>1, <2>3, <2>a DEF Exclusive
  <2>5. \A v \in Workers : req'[v].at = "deleting" /\ req'[v].file = n => ~Referenced(n)
    BY <1>a, <2>1, <2>2 DEF Exclusive
  <2>6. Referenced(n) => n \in files'
    BY <1>a, <2>1 DEF Exclusive
  <2>7. Referenced(n)' = Referenced(n)
    BY <2>1 DEF Referenced
  <2> QED BY <2>4, <2>5, <2>6, <2>7 DEF Exclusive
<1>5. ASSUME NEW w \in Workers, Commit(w) PROVE Exclusive(n)'
  <2> DEFINE e == req[w].event
  <2>1. /\ req'[w] = [Idle EXCEPT !.at = "committed", !.todo = Replaced(req[w])]
        /\ \A v \in Workers : v # w => req'[v] = req[v]
        /\ files' = files /\ req[w].at = "saving"
    BY <1>5, <1>0 DEF Commit
  <2>2. /\ req'[w].new = Blank /\ req'[w].todo = Replaced(req[w])
        /\ req'[w].at = "committed" /\ req'[w].file = None /\ req[w].file = None
    BY <1>0, <2>1 DEF Idle, RequestOK
  <2>3. /\ e \in Events
        /\ \A f \in Events \ {e} : images'[f] = images[f]
        /\ \A c \in Columns : images'[e][c] = n
              => images[e][c] = n \/ n \in Named(req[w].new)
        /\ n \in Named(Replaced(req[w])) => \E c \in Columns : images[e][c] = n
    BY <1>5, <1>0, CommitNames DEF ImagesInv
  <2> HIDE DEF e
  <2>4. n \in Held(req'[w]) => Referenced(n)
    BY <1>0, <2>2, <2>3, BlankRow DEF Held, Pending, Referenced
  <2>5. n \notin Named(req'[w].new)
    BY <2>2, BlankRow
  <2>6. CASE n \in Named(req[w].new)
    <3>1. n \in files /\ \A v \in Workers \ {w} : n \notin Held(req[v])
      BY <1>0, <1>a, <2>2, <2>6 DEF Exclusive
    <3>2. \A v \in Workers \ {w} : n \notin Named(req'[v].new) /\ req'[v].file # n
      BY <2>1, <3>1 DEF Held, Pending
    <3> QED BY <2>1, <2>2, <2>5, <3>1, <3>2 DEF Exclusive
  <2>7. CASE n \notin Named(req[w].new)
    <3>1. Referenced(n)' => Referenced(n)
      BY <2>3, <2>7 DEF Referenced
    <3>2. \A v \in Workers : n \in Named(req'[v].new) =>
             /\ ~Referenced(n)' /\ (n \in files' \/ req'[v].file = n)
             /\ \A u \in Workers \ {v} : n \notin Held(req'[u])
      BY <1>a, <2>1, <2>4, <2>5, <3>1 DEF Exclusive
    <3> QED BY <1>a, <2>1, <2>2, <3>1, <3>2 DEF Exclusive
  <2> QED BY <2>6, <2>7
<1>6. ASSUME NEW w \in Workers, NEW e \in Events, DeleteLoad(w, e) PROVE Exclusive(n)'
  <2>1. /\ req'[w].new = Blank /\ req'[w].todo = Blank /\ req'[w].file = None
        /\ req'[w].at = "delete_loaded" /\ req'[w].loaded = images[e]
        /\ images' = images /\ files' = files
        /\ \A v \in Workers : v # w => req'[v] = req[v]
    BY <1>0, <1>6 DEF DeleteLoad, Idle
  <2>2. n \in Held(req'[w]) => Referenced(n)
    BY <1>0, <2>1, BlankRow DEF Held, Pending, Named, Referenced
  <2> QED BY <1>0, <1>a, <2>1, <2>2, BlankRow, HoldsNoMore
<1>7. ASSUME NEW w \in Workers, DeleteCommit(w) PROVE Exclusive(n)'
  <2>1. /\ req'[w] = [Idle EXCEPT !.at = "committed", !.todo = req[w].loaded]
        /\ \A v \in Workers : v # w => req'[v] = req[v]
        /\ images' = [images EXCEPT ![req[w].event] = Blank]
        /\ files' = files /\ req[w].at = "delete_loaded"
    BY <1>7, <1>0 DEF DeleteCommit
  <2>2. /\ req'[w].new = Blank /\ req'[w].todo = req[w].loaded
        /\ req'[w].at = "committed" /\ req'[w].file = None
    BY <2>1 DEF Idle
  <2>3. Referenced(n)' => Referenced(n)
    BY <1>0, <2>1 DEF Blank, Referenced
  <2>4. \A v \in Workers : n \in Held(req'[v]) => n \in Held(req[v])
    BY <1>0, <2>1, <2>2, BlankRow DEF Held, Pending
  <2>5. n \notin Named(req'[w].new)
    BY <2>2, BlankRow
  <2>6. \A v \in Workers : n \in Named(req'[v].new) =>
           /\ ~Referenced(n)' /\ (n \in files' \/ req'[v].file = n)
           /\ \A u \in Workers \ {v} : n \notin Held(req'[u])
    BY <1>a, <2>1, <2>3, <2>4, <2>5 DEF Exclusive
  <2> QED BY <1>a, <2>1, <2>2, <2>3, <2>6 DEF Exclusive
<1>8. ASSUME NEW w \in Workers, NEW c \in Columns, CheckFile(w, c) PROVE Exclusive(n)'
  <2>1. /\ images' = images /\ files' = files /\ req[w].todo[c] # None
        /\ req[w].at = "committed" /\ req[w].file = None
        /\ \A v \in Workers : v # w => req'[v] = req[v]
    BY <1>8, <1>0 DEF CheckFile, RequestOK, Checked, ToDelete
  <2>2. /\ req'[w].todo = [req[w].todo EXCEPT ![c] = None] /\ req'[w].new = req[w].new
        /\ \/ req'[w].at = "committed" /\ req'[w].file = None
           \/ req'[w].at = "deleting" /\ req'[w].file = req[w].todo[c]
                 /\ ~Referenced(req[w].todo[c])
    <3>1. CASE Referenced(req[w].todo[c])
      BY <1>8, <1>0, <2>1, <3>1 DEF CheckFile, Checked, Request
    <3>2. CASE ~Referenced(req[w].todo[c])
      BY <1>8, <1>0, <2>1, <3>2 DEF CheckFile, ToDelete, Request
    <3> QED BY <3>1, <3>2
  <2>3. n \in Named(req'[w].todo) \/ n = req[w].todo[c] => n \in Named(req[w].todo)
    BY <1>0, <2>2 DEF Named, Request, ImageNames
  <2>4. n \in Held(req'[w]) => n \in Held(req[w])
    BY <1>0, <2>1, <2>2, <2>3 DEF Held, Pending
  <2>5. Named(req[w].new) = {}
    BY <1>0, <2>1, BlankRow DEF RequestOK
  <2> QED BY <1>a, <1>0, <2>1, <2>2, <2>4, <2>5, HoldsNoMore
<1>9. ASSUME NEW w \in Workers, DeleteFile(w) PROVE Exclusive(n)'
  <2>1. /\ req'[w] = [req[w] EXCEPT !.at = "committed", !.file = None]
        /\ \A v \in Workers : v # w => req'[v] = req[v]
        /\ images' = images /\ files' = files \ {req[w].file} /\ req[w].at = "deleting"
    BY <1>9, <1>0 DEF DeleteFile
  <2>2. /\ req'[w].new = req[w].new /\ req'[w].todo = req[w].todo
        /\ req'[w].at = "committed" /\ req'[w].file = None
        /\ Named(req[w].new) = {}
    BY <1>0, <2>1, BlankRow DEF Request, RequestOK
  <2>3. req[w].file = n
          => ~Referenced(n) /\ \A v \in Workers : n \notin Named(req[v].new)
    BY <1>a, <2>1, <2>2 DEF Exclusive, Held, Pending
  <2>4. \A v \in Workers : n \in Held(req'[v]) => n \in Held(req[v])
    BY <1>0, <2>1, <2>2 DEF Held, Pending
  <2>5. \A v \in Workers : n \in Named(req'[v].new) =>
           /\ n \in Named(req[v].new) /\ req'[v].file = req[v].file /\ req[w].file # n
    BY <2>1, <2>2, <2>3
  <2>6. \A v \in Workers : n \in Named(req'[v].new) =>
           /\ ~Referenced(n) /\ (n \in files' \/ req'[v].file = n)
           /\ \A u \in Workers \ {v} : n \notin Held(req'[u])
    BY <1>a, <2>1, <2>4, <2>5 DEF Exclusive
  <2>7. Referenced(n) => n \in files'
    BY <1>a, <2>1, <2>3 DEF Exclusive
  <2>8. \A v \in Workers : req'[v].at = "deleting" /\ req'[v].file = n => ~Referenced(n)
    BY <1>a, <2>1, <2>2 DEF Exclusive
  <2>9. Referenced(n)' = Referenced(n)
    BY <2>1 DEF Referenced
  <2> QED BY <2>6, <2>7, <2>8, <2>9 DEF Exclusive
<1>10. ASSUME NEW w \in Workers, Finish(w) \/ Abandon(w) PROVE Exclusive(n)'
  <2>1. /\ req'[w] = Idle /\ \A v \in Workers : v # w => req'[v] = req[v]
        /\ images' = images /\ files' = files
    BY <1>10, <1>0 DEF Finish, Abandon
  <2>2. Named(req'[w].new) = {} /\ req'[w].at = "idle" /\ n \notin Held(req'[w])
    BY <1>0, <2>1, BlankRow DEF Idle, Held, Pending
  <2> QED BY <1>0, <1>a, <2>1, <2>2, HoldsNoMore
<1>11. ASSUME UNCHANGED vars PROVE Exclusive(n)'
  BY <1>11, <1>a DEF vars, Exclusive, Referenced
<1> QED
  BY <1>1, <1>2, <1>3, <1>4, <1>5, <1>6, <1>7, <1>8, <1>9, <1>10, <1>11 DEF Next, FormStep

(* An image that is named is in the storage, unless its name was given out *)
(* while another request was about to put or to delete a file of that      *)
(* name: nothing is deleted before the commit that stops naming it.        *)
THEOREM ImagesStay == Spec => []ImagesStored
<1>1. ImagesInv /\ [Next]_vars => ImagesInv'
  <2> SUFFICES ASSUME ImagesInv, [Next]_vars PROVE ImagesInv'
    OBVIOUS
  <2>1. TypeInv'
    BY TypeStep DEF ImagesInv
  <2>2. \A n \in Names \ raced' : Exclusive(n)'
    BY ExclusiveStep
  <2> QED BY <2>1, <2>2 DEF ImagesInv
<1>2. ImagesInv => ImagesStored
  BY DEF ImagesInv, ImagesStored, Exclusive, Referenced, TypeInv, TypeOK, ImageNames
<1> QED BY <1>1, <1>2, ImagesInit, PTL DEF Spec

-----------------------------------------------------------------------------
(* One request at a time.                                                  *)
Serial ==
  \A v, w \in Workers : req[v].at # "idle" /\ req[w].at # "idle" => v = w

NothingRaced == raced = {}

LEMMA SerialStep ==
  ASSUME TypeInv, Serial, NothingRaced, [Next]_vars
  PROVE  NothingRaced'
<1> USE DEF NothingRaced
<1>1. ASSUME NEW w \in Workers, NEW c \in Columns, NEW n \in Names, Name(w, c, n)
      PROVE  NothingRaced'
  <2>1. \A v \in Workers \ {w} : req[v].at = "idle"
    BY <1>1 DEF Name, Serial
  <2>2. \A v \in Workers \ {w} : Held(req[v]) = {None}
    BY <2>1, BlankRow DEF TypeInv, RequestOK, Held, Pending
  <2> QED BY <1>1, <2>2, ConstantAssumption DEF Name
<1>2. ASSUME NEW w \in Workers,
             \/ \E e \in Events, f \in Forms : Add(w, e, f) \/ Load(w, e, f)
             \/ Clean(w) \/ Lock(w) \/ Put(w) \/ Commit(w)
             \/ \E e \in Events : DeleteLoad(w, e)
             \/ DeleteCommit(w)
             \/ \E c \in Columns : CheckFile(w, c)
             \/ DeleteFile(w) \/ Finish(w) \/ Abandon(w)
      PROVE  NothingRaced'
  BY <1>2 DEF Add, Load, Clean, Lock, Put, Commit, DeleteLoad, DeleteCommit, CheckFile,
     DeleteFile, Finish, Abandon
<1>3. ASSUME UNCHANGED vars PROVE NothingRaced'
  BY <1>3 DEF vars
<1> QED BY <1>1, <1>2, <1>3 DEF Next, FormStep

(* Whatever fails or is rolled back: when no two requests are under way at *)
(* once, every image that a column names is in the storage; what           *)
(* get_available_name and delete_file lack is only a claim on the name.    *)
NamedAreStored ==
  \A e \in Events, c \in Columns : images[e][c] # None => images[e][c] \in files

(* Requests that do not overlap never take a named image's file away: the  *)
(* race for a name that delete_file has found free needs two of them.      *)
THEOREM SerialImagesStay == Spec /\ []Serial => []NamedAreStored
<1>1. Init => NothingRaced
  BY DEF Init, NothingRaced
<1>2. TypeInv /\ Serial /\ NothingRaced /\ [Next]_vars => NothingRaced'
  BY SerialStep
<1>3. ImagesStored /\ NothingRaced => NamedAreStored
  BY DEF NothingRaced, ImagesStored, NamedAreStored
<1> QED BY <1>1, <1>2, <1>3, TypesAndRequests, ImagesStay, PTL DEF Spec

(* What a deletion fetched is what it will find.                           *)
CopiesAreFresh ==
  \A w \in Workers : req[w].at = "delete_loaded" => req[w].loaded = images[req[w].event]

(* Each step is of one request; a deletion fetches its copies itself.      *)
LEMMA OthersWait ==
  ASSUME TypeInv, NEW w \in Workers,
         \/ FormStep(w) \/ \E e \in Events : DeleteLoad(w, e)
         \/ DeleteCommit(w)
         \/ \E c \in Columns : CheckFile(w, c)
         \/ DeleteFile(w) \/ Finish(w) \/ Abandon(w)
  PROVE  /\ \A v \in Workers \ {w} : req'[v] = req[v]
         /\ req'[w].at = "delete_loaded" => \E e \in Events : DeleteLoad(w, e)
<1>0. req \in [Workers -> Request] /\ req[w] \in Request
  BY DEF TypeInv, TypeOK
<1>. DEFINE Goal == /\ \A v \in Workers \ {w} : req'[v] = req[v]
                    /\ req'[w].at = "delete_loaded" => \E e \in Events : DeleteLoad(w, e)
<1>1. ASSUME NEW e \in Events, NEW f \in Forms, Add(w, e, f) \/ Load(w, e, f) PROVE Goal
  BY <1>0, <1>1 DEF Add, Load, Idle
<1>2. CASE Clean(w) \/ Lock(w)
  BY <1>0, <1>2 DEF Clean, Lock, Request
<1>3. ASSUME NEW c \in Columns, NEW n \in Names, Name(w, c, n) PROVE Goal
  BY <1>0, <1>3 DEF Name, Request
<1>4. CASE Put(w)
  BY <1>0, <1>4 DEF Put, Request
<1>5. CASE Commit(w)
  BY <1>0, <1>5 DEF Commit, Idle
<1>6. CASE DeleteCommit(w)
  BY <1>0, <1>6 DEF DeleteCommit, Idle
<1>7. ASSUME NEW e \in Events, DeleteLoad(w, e) PROVE Goal
  BY <1>0, <1>7 DEF DeleteLoad
<1>8. ASSUME NEW c \in Columns, CheckFile(w, c) PROVE Goal
  BY <1>0, <1>8 DEF CheckFile, Checked, ToDelete, Request
<1>9. CASE DeleteFile(w)
  BY <1>0, <1>9 DEF DeleteFile, Request
<1>10. CASE Finish(w) \/ Abandon(w)
  BY <1>0, <1>10 DEF Finish, Abandon, Idle
<1>. QED BY <1>1, <1>2, <1>3, <1>4, <1>5, <1>6, <1>7, <1>8, <1>9, <1>10 DEF FormStep

LEMMA FreshStep ==
  ASSUME TypeInv, Serial, CopiesAreFresh, [Next]_vars
  PROVE  CopiesAreFresh'
<1>1. ASSUME NEW w \in Workers, NEW e \in Events, DeleteLoad(w, e) PROVE CopiesAreFresh'
  <2>1. req' = [req EXCEPT ![w] = [Idle EXCEPT !.at = "delete_loaded", !.event = e,
                                               !.loaded = images[e]]]
        /\ images' = images /\ req \in [Workers -> Request]
    BY <1>1 DEF DeleteLoad, database, TypeInv, TypeOK
  <2>. QED BY <2>1 DEF CopiesAreFresh, Idle
<1>2. ASSUME NEW w \in Workers,
             \/ FormStep(w) \/ DeleteCommit(w)
             \/ \E c \in Columns : CheckFile(w, c)
             \/ DeleteFile(w) \/ Finish(w) \/ Abandon(w),
             ~\E e \in Events : DeleteLoad(w, e)
      PROVE  CopiesAreFresh'
  <2>1. req'[w].at # "delete_loaded" /\ \A v \in Workers \ {w} : req'[v] = req[v]
    BY <1>2, OthersWait
  <2>2. CASE images' = images
    BY <2>1, <2>2 DEF CopiesAreFresh
  <2>3. CASE images' # images
    <3>1. req[w].at # "idle"
      BY <1>2, <2>3 DEF FormStep, Add, Load, Clean, Lock, Name, Put, Commit, DeleteCommit,
                        CheckFile, DeleteFile, Finish, Abandon, database
    <3>. QED BY <2>1, <3>1 DEF Serial, CopiesAreFresh
  <2>. QED BY <2>2, <2>3
<1>3. ASSUME UNCHANGED vars PROVE CopiesAreFresh'
  BY <1>3 DEF vars, database, CopiesAreFresh
<1>. QED BY <1>1, <1>2, <1>3 DEF Next

(* Requests that do not overlap leave no file behind unless they end early: *)
(* remember_replaced_images and the deletion's signals, with the copies of *)
(* the rows they work from, then see every name that is given up.          *)
OnlyAbandonedLeave == [][left' \subseteq left \/ \E w \in Workers : Abandon(w)]_vars

(* post_delete and on_commit clean up behind every request that ends well, *)
(* replaced and deleted images alike; what stays is what a rollback, an    *)
(* error or a crash left.                                                  *)
THEOREM SerialRequestsCleanUp == Spec /\ []Serial => OnlyAbandonedLeave
<1>1. Init => CopiesAreFresh
  BY DEF Init, Idle, CopiesAreFresh
<1>2. TypeInv /\ Serial /\ CopiesAreFresh /\ [Next]_vars => CopiesAreFresh'
  BY FreshStep
<1>3. ASSUME CopiesAreFresh, [Next]_vars
      PROVE  left' \subseteq left \/ \E w \in Workers : Abandon(w)
  <2>1. ASSUME NEW w \in Workers, DeleteCommit(w) PROVE left' \subseteq left
    BY <1>3, <2>1 DEF DeleteCommit, CopiesAreFresh
  <2>2. ASSUME NEW w \in Workers,
               \/ FormStep(w) \/ \E e \in Events : DeleteLoad(w, e)
               \/ \E c \in Columns : CheckFile(w, c)
               \/ DeleteFile(w) \/ Finish(w)
        PROVE  left' \subseteq left
    BY <2>2 DEF FormStep, Add, Load, Clean, Lock, Name, Put, Commit, DeleteLoad, CheckFile,
                DeleteFile, Finish
  <2>. QED BY <1>3, <2>1, <2>2 DEF Next, vars
<1>4. CopiesAreFresh /\ [Next]_vars
        => [left' \subseteq left \/ \E w \in Workers : Abandon(w)]_vars
  BY <1>3
<1>. QED BY <1>1, <1>2, <1>4, TypesAndRequests, PTL DEF Spec, OnlyAbandonedLeave

-----------------------------------------------------------------------------
(* Backup and restore.                                                     *)

BackupOK(b) ==
  LET r == backups[b] IN
  /\ r.at \in {"dumped", "archiving", "done"}
       => r.db \in Snapshot /\ r.db.alive \subseteq r.db.issued
  /\ r.steady => r.at \in {"dumped", "archiving", "done"}
  /\ r.steady /\ r.at # "done" => Serving
  /\ r.steady /\ r.at = "dumped" => DumpNames(b) \subseteq files \cup raced
  /\ r.steady /\ r.at = "archiving"
       => r.todo \subseteq files /\ DumpNames(b) \subseteq r.media \cup r.todo \cup raced
  /\ r.steady /\ r.at = "done" => DumpNames(b) \subseteq r.sum[2] \cup raced

RestoreOK ==
  /\ restore.at = "none" => restore = NoRestore
  /\ restore.at # "none" =>
        restore.from \in Backups /\ backups[restore.from].at = "done" /\ site = "down"
  /\ restore.at \in {"verified", "cleaned", "loaded", "cleared"} => Intact(restore.from)
  /\ restore.at \in {"loaded", "cleared"} =>
        backups[restore.from].db = Now

SiteOK ==
  /\ site = "down" => \A w \in Workers : req[w] = Idle
  /\ Serving => \A n \in Names \ raced : Exclusive(n)

BackupInv ==
  /\ TypesOK /\ TypeInv
  /\ \A b \in Backups : BackupOK(b)
  /\ RestoreOK /\ SiteOK

LEMMA NoBackupType == NoBackup \in Backup /\ NoRestore \in [at: RestoreSteps, from: Backups \cup {None}]
BY DEF NoBackup, Backup, NoRestore, RestoreSteps

LEMMA BackupInit == InitAll => BackupInv
<1> SUFFICES ASSUME InitAll PROVE BackupInv
  OBVIOUS
<1>1. TypeInv /\ \A n \in Names \ raced : Exclusive(n)
  BY ImagesInit DEF InitAll, ImagesInv
<1>2. TypesOK
  <2>1. MaxRestores \in Nat /\ MaxDamages \in Nat
    BY RestoreAssumption
  <2>2. restores \in 0..MaxRestores /\ damages \in 0..MaxDamages
    BY <2>1 DEF InitAll
  <2>3. backups \in [Backups -> Backup] /\ restore \in [at: RestoreSteps, from: Backups \cup {None}]
    BY NoBackupType DEF InitAll
  <2> QED BY <1>1, <2>2, <2>3 DEF InitAll, TypesOK, TypeInv
<1>3. \A b \in Backups : BackupOK(b)
  <2>1. \A b \in Backups : backups[b].at = "none" /\ backups[b].steady = FALSE
    BY DEF InitAll, NoBackup
  <2>2. \A b \in Backups : ~backups[b].steady /\ backups[b].at \notin {"dumped", "archiving", "done"}
    BY <2>1
  <2> QED BY ONLY <2>2 DEF BackupOK
<1> QED BY <1>1, <1>2, <1>3 DEF InitAll, BackupInv, RestoreOK, SiteOK, NoRestore

-----------------------------------------------------------------------------
(* Types.                                                                  *)

LEMMA SnapshotType ==
  ASSUME TypeInv
  PROVE  Now \in Snapshot
BY DEF Now, TypeInv, TypeOK, Snapshot

(* Requests are the only ones to touch Media's state while the site is up. *)
LEMMA TypesStep ==
  ASSUME BackupInv, [NextAll]_allVars
  PROVE  TypesOK' /\ TypeInv'
<1> USE DEF database, tools
<1>0. /\ TypeInv /\ TypeOK /\ backups \in [Backups -> Backup]
      /\ site \in {"up", "down"} /\ tainted \in BOOLEAN
      /\ restore \in [at: RestoreSteps, from: Backups \cup {None}]
      /\ restores \in 0..MaxRestores /\ damages \in 0..MaxDamages
      /\ MaxRestores \in Nat /\ MaxDamages \in Nat
      /\ \A b \in Backups : backups[b] \in Backup
  BY RestoreAssumption DEF BackupInv, TypesOK
<1>a. UNCHANGED vars => TypeInv'
  BY <1>0, TypeStep
<1>b. TypeInv' => TypeOK'
  BY DEF TypeInv
<1>c. \A st \in BOOLEAN : Watched(st) \in [Backups -> Backup]
  <2>1. \A r \in Backup : [r EXCEPT !.steady = FALSE] \in Backup
    BY DEF Backup
  <2> QED BY <1>0, <2>1 DEF Watched
<1>d. ASSUME NEW b \in Backups, NEW r \in Backup, backups' = [backups EXCEPT ![b] = r]
      PROVE  backups' \in [Backups -> Backup]
  BY <1>0, <1>d
<1>e. ASSUME NEW at \in RestoreSteps, restore' = [restore EXCEPT !.at = at]
      PROVE  restore' \in [at: RestoreSteps, from: Backups \cup {None}]
  BY <1>0, <1>e
<1>1. CASE Serve
  <2>1. TypeInv'
    BY <1>1, <1>0, TypeStep DEF Serve
  <2>2. backups' \in [Backups -> Backup]
    BY <1>1, <1>c DEF Serve
  <2> QED BY <1>1, <1>0, <1>b, <2>1, <2>2 DEF Serve, TypesOK
<1>2. ASSUME NEW b \in Backups, BackupStep(b) PROVE TypesOK' /\ TypeInv'
  <2>1. /\ UNCHANGED vars /\ site' = site /\ restore' = restore /\ restores' = restores
        /\ tainted' = tainted
        /\ damages' = damages \/ (damages < MaxDamages /\ damages' = damages + 1)
    BY <1>2 DEF BackupStep, Dump, Archive, Checksum, BackupFails, ArchiveFile, SkipFile, Damage
  <2>3. damages' \in 0..MaxDamages
    BY <1>0, <2>1
  <2>2. backups' \in [Backups -> Backup]
    <3>1. CASE Dump(b)
      <4>1. Serving \in BOOLEAN /\ Now \in Snapshot
        BY SnapshotType, <1>0 DEF Serving
      <4>2. [NoBackup EXCEPT !.at = "dumped", !.db = Now, !.steady = Serving] \in Backup
        BY ONLY <4>1, NoBackupType DEF Backup
      <4> QED BY <3>1, <4>2, <1>d DEF Dump
    <3>2. CASE Archive(b)
      <4>1. files \subseteq Names
        BY <1>0 DEF TypeOK
      <4>2. \A r \in Backup : [r EXCEPT !.at = "archiving", !.todo = files] \in Backup
        BY ONLY <4>1 DEF Backup
      <4>3. backups' = [backups EXCEPT ![b] = [backups[b] EXCEPT !.at = "archiving", !.todo = files]]
        BY <3>2, <1>0 DEF Archive
      <4> QED BY <4>2, <4>3, <1>0, <1>d
    <3>3. CASE Checksum(b)
      <4>1. Sum(b) \in (Snapshot \cup {None}) \X SUBSET Names
        BY <1>0 DEF Sum, Backup
      <4> QED BY <3>3, <4>1, <1>0, <1>d DEF Checksum, Backup
    <3>4. CASE BackupFails(b)
      BY <3>4, <1>d, NoBackupType DEF BackupFails, Backup
    <3>5. ASSUME NEW n \in Names, ArchiveFile(b, n) \/ SkipFile(b, n) \/ Damage(b, n)
          PROVE  backups' \in [Backups -> Backup]
      BY <3>5, <1>0, <1>d DEF ArchiveFile, SkipFile, Damage, Backup
    <3> QED BY <1>2, <3>1, <3>2, <3>3, <3>4, <3>5 DEF BackupStep
  <2>4. TypeInv' /\ TypeOK'
    BY <1>a, <1>b, <2>1
  <2> QED BY <1>0, <2>1, <2>2, <2>3, <2>4 DEF TypesOK
<1>3. ASSUME NEW b \in Backups, Stop(b) PROVE TypesOK' /\ TypeInv'
  <2>1. TypeInv'
    BY <1>3, <1>0, IdleRequest DEF Stop, TypeInv, TypeOK
  <2>2. restores' \in 0..MaxRestores
    BY <1>3, <1>0 DEF Stop
  <2>3. backups' \in [Backups -> Backup]
    BY <1>3, <1>c DEF Stop
  <2>4. restore' \in [at: RestoreSteps, from: Backups \cup {None}]
    BY <1>3 DEF Stop, RestoreSteps
  <2> QED BY <1>3, <1>0, <1>b, <2>1, <2>2, <2>3, <2>4 DEF Stop, TypesOK
<1>4. CASE Verify
  BY <1>4, <1>0, <1>a, <1>b, <1>e DEF Verify, Restoring, RestoreSteps, TypesOK
<1>5. CASE CleanDatabase \/ LoadDatabase
  <2>0. site = "down" /\ \A w \in Workers : req[w] = Idle
    BY <1>5 DEF CleanDatabase, LoadDatabase, Restoring, BackupInv, RestoreOK, SiteOK
  <2>1. /\ alive' \subseteq issued' /\ issued' \subseteq Events
        /\ images' \in [Events -> ImageNames]
    <3>1. CASE CleanDatabase
      BY <3>1, BlankRow DEF CleanDatabase
    <3>2. CASE LoadDatabase
      <4>1. backups[restore.from].db \in Snapshot
            /\ backups[restore.from].db.alive \subseteq backups[restore.from].db.issued
        BY <3>2 DEF LoadDatabase, Restoring, BackupInv, RestoreOK, BackupOK
      <4> QED BY <3>2, <4>1 DEF LoadDatabase, Snapshot
    <3> QED BY <1>5, <3>1, <3>2
  <2>2. UNCHANGED <<files, req, begun, left, raced, site, backups, restores, damages, tainted>>
    BY <1>5 DEF CleanDatabase, LoadDatabase
  <2>3. TypeInv'
    BY <1>0, <2>0, <2>1, <2>2, IdleRequest DEF TypeInv, TypeOK
  <2>4. restore' \in [at: RestoreSteps, from: Backups \cup {None}]
    BY <1>5, <1>e DEF CleanDatabase, LoadDatabase, Restoring, RestoreSteps
  <2> QED BY <1>0, <1>b, <2>2, <2>3, <2>4 DEF TypesOK
<1>6. CASE ClearMedia
  <2>1. TypeInv'
    BY <1>6, <1>0 DEF ClearMedia, TypeInv, TypeOK
  <2> QED BY <1>6, <1>0, <1>b, <1>e, <2>1 DEF ClearMedia, Restoring, RestoreSteps, TypesOK
<1>7. ASSUME NEW n \in Names, ExtractFile(n) PROVE TypesOK' /\ TypeInv'
  <2>1. TypeInv'
    BY <1>7, <1>0 DEF ExtractFile, TypeInv, TypeOK
  <2> QED BY <1>7, <1>0, <1>b, <2>1 DEF ExtractFile, TypesOK
<1>8. CASE Up \/ RestoreFails
  BY <1>8, <1>0, <1>a, <1>b, NoBackupType DEF Up, RestoreFails, TypesOK
<1>9. CASE UNCHANGED allVars
  BY <1>9, <1>0, <1>a, <1>b DEF allVars, TypesOK
<1> QED
  BY <1>1, <1>2, <1>3, <1>4, <1>5, <1>6, <1>7, <1>8, <1>9 DEF NextAll, RestoreStep

-----------------------------------------------------------------------------
(* What a backup is worth, and that it stays so.                           *)

LEMMA RacedGrows == [Next]_vars => raced \subseteq raced'
<1>1. \A w \in Workers, c \in Columns, m \in Names : Name(w, c, m) => raced \subseteq raced'
  BY DEF Name
<1>2. [Next]_vars => UNCHANGED raced \/ \E w \in Workers, c \in Columns, m \in Names : Name(w, c, m)
  BY DEF Next, FormStep, Add, Load, Clean, Lock, Put, Commit, DeleteLoad,
         DeleteCommit, CheckFile, DeleteFile, Finish, Abandon, vars
<1> QED BY <1>1, <1>2

LEMMA ServeRaced == [NextAll]_allVars => raced \subseteq raced'
<1>1. Serve => raced \subseteq raced'
  BY RacedGrows DEF Serve
<1>2. [NextAll]_allVars /\ ~Serve => UNCHANGED raced
  BY DEF NextAll, BackupStep, RestoreStep, Dump, Archive, Checksum, BackupFails, ArchiveFile,
         SkipFile, Damage, Stop, Verify, CleanDatabase, LoadDatabase, ClearMedia, ExtractFile,
         Up, RestoreFails, allVars, vars, database
<1> QED BY <1>1, <1>2

(* A backup keeps its worth while it is left alone.                        *)
LEMMA BackupKept ==
  ASSUME NEW b \in Backups, BackupOK(b), raced \subseteq raced', backups'[b] = backups[b],
         backups[b].steady /\ backups[b].at # "done"
           => files \subseteq files' /\ Serving'
  PROVE  BackupOK(b)'
<1>1. DumpNames(b)' = DumpNames(b)
  BY DEF DumpNames
<1> QED BY <1>1 DEF BackupOK

LEMMA BackupUnsteady ==
  ASSUME NEW b \in Backups, BackupOK(b), ~backups'[b].steady,
         backups'[b].at = backups[b].at, backups'[b].db = backups[b].db,
         backups'[b].sum = backups[b].sum
  PROVE  BackupOK(b)'
BY DEF BackupOK

(* What an untainted site serves is worth a steady backup.                 *)
LEMMA SnapshotWorth ==
  ASSUME BackupInv, Serving
  PROVE  UNION {Named(images[e]) : e \in Events} \subseteq files \cup raced
<1>1. \A n \in Names \ raced : Exclusive(n)
  BY DEF BackupInv, SiteOK
<1>2. images \in [Events -> ImageNames]
  BY DEF BackupInv, TypesOK, TypeOK
<1>3. ASSUME NEW e \in Events, NEW n \in Named(images[e]) PROVE n \in files \cup raced
  <2>1. images[e] \in ImageNames
    BY <1>2
  <2>2. n \in Names /\ \E c \in Columns : images[e][c] = n
    BY <2>1, NamesOfRow
  <2> QED BY <1>1, <2>2 DEF Exclusive, Referenced
<1> QED BY <1>3

LEMMA BackupsStep ==
  ASSUME BackupInv, [NextAll]_allVars, NEW b \in Backups
  PROVE  BackupOK(b)'
<1> USE DEF database, tools
<1>0. /\ BackupOK(b) /\ raced \subseteq raced'
      /\ backups \in [Backups -> Backup] /\ backups[b] \in Backup
      /\ site \in {"up", "down"} /\ tainted \in BOOLEAN
  BY ServeRaced DEF BackupInv, TypesOK
<1>a. ASSUME backups'[b] = backups[b], UNCHANGED <<files, site, tainted>>
      PROVE  BackupOK(b)'
  <2>1. backups[b].steady /\ backups[b].at # "done" => files \subseteq files' /\ Serving'
    BY <1>0, <1>a DEF BackupOK, Serving
  <2> QED BY <1>0, <1>a, <2>1, BackupKept
<1>1. CASE Serve
  <2>1. CASE InProgress(b) /\ ~(files \subseteq files')
    BY <1>0, <1>1, <2>1, BackupUnsteady DEF Serve, Watched, Backup
  <2>2. CASE ~InProgress(b) \/ files \subseteq files'
    <3>1. backups'[b] = backups[b] /\ (Serving => Serving')
      BY <1>1, <2>2 DEF Serve, Watched, Serving
    <3>2. backups[b].steady /\ backups[b].at # "done" => InProgress(b) /\ Serving
      BY <1>0 DEF BackupOK, InProgress
    <3> QED BY <1>0, <2>2, <3>1, <3>2, BackupKept
  <2> QED BY <2>1, <2>2
<1>2. ASSUME NEW k \in Backups, BackupStep(k) PROVE BackupOK(b)'
  <2>0. UNCHANGED <<files, site, tainted>>
    BY <1>2 DEF BackupStep, Dump, Archive, Checksum, BackupFails, ArchiveFile, SkipFile,
                Damage, vars
  <2>1. CASE k # b
    <3>1. backups'[b] = backups[b]
      BY <1>0, <1>2, <2>1 DEF BackupStep, Dump, Archive, Checksum, BackupFails, ArchiveFile,
                              SkipFile, Damage
    <3> QED BY <1>a, <2>0, <3>1
  <2>2. CASE Dump(b)
    <3>1. /\ backups'[b].at = "dumped" /\ backups'[b].db = Now
          /\ backups'[b].steady = Serving
      BY <1>0, <2>2 DEF Dump, NoBackup
    <3>2. Now \in Snapshot /\ Now.alive \subseteq Now.issued /\ Now.images = images
      BY SnapshotType DEF BackupInv, TypeInv, TypeOK, Now
    <3>3. DumpNames(b)' = UNION {Named(images[e]) : e \in Events}
      BY <3>1, <3>2 DEF DumpNames
    <3>4. Serving => DumpNames(b)' \subseteq files \cup raced
      BY <3>1, <3>3, SnapshotWorth
    <3>5. raced' = raced /\ files' = files /\ tainted' = tainted /\ site' = site
      BY <2>2 DEF Dump, vars
    <3>6. Serving => DumpNames(b)' \subseteq files' \cup raced'
      BY <3>4, <3>5
    <3> QED BY <3>1, <3>2, <3>5, <3>6 DEF BackupOK, Serving
  <2>b. Serving => Serving'
    BY <2>0 DEF Serving
  <2>a. ASSUME backups'[b].db = backups[b].db, backups'[b].steady = backups[b].steady
        PROVE  DumpNames(b)' = DumpNames(b)
    BY <2>a DEF DumpNames
  <2>3. CASE Archive(b)
    <3>1. /\ backups[b].at = "dumped" /\ backups'[b].at = "archiving"
          /\ backups'[b].db = backups[b].db /\ backups'[b].steady = backups[b].steady
          /\ backups'[b].todo = files
      BY <1>0, <2>3 DEF Archive, Backup
    <3> QED BY <1>0, <2>0, <2>a, <2>b, <3>1 DEF BackupOK
  <2>4. CASE Checksum(b)
    <3>1. /\ backups[b].at = "archiving" /\ backups[b].todo = {} /\ backups'[b].at = "done"
          /\ backups'[b].db = backups[b].db /\ backups'[b].steady = backups[b].steady
          /\ backups'[b].sum = <<backups[b].db, backups[b].media>>
      BY <1>0, <2>4 DEF Checksum, Sum, Backup
    <3>2. backups'[b].sum[2] = backups[b].media
      BY <3>1
    <3> QED BY <1>0, <2>0, <2>a, <2>b, <3>1, <3>2 DEF BackupOK
  <2>5. CASE BackupFails(b)
    <3>1. backups'[b].at = "failed" /\ ~backups'[b].steady
      BY <1>0, <2>5 DEF BackupFails, NoBackup
    <3> QED BY <3>1 DEF BackupOK
  <2>6. ASSUME NEW n \in Names, ArchiveFile(b, n) PROVE BackupOK(b)'
    <3>1. /\ backups[b].at = "archiving" /\ backups'[b].at = "archiving"
          /\ backups'[b].db = backups[b].db /\ backups'[b].steady = backups[b].steady
          /\ backups'[b].media = backups[b].media \cup {n}
          /\ backups'[b].todo = backups[b].todo \ {n}
      BY <1>0, <2>6 DEF ArchiveFile, Backup
    <3> QED BY <1>0, <2>0, <2>a, <2>b, <3>1 DEF BackupOK
  <2>7. ASSUME NEW n \in Names, SkipFile(b, n) PROVE BackupOK(b)'
    <3>1. /\ backups[b].at = "archiving" /\ backups'[b].at = "archiving"
          /\ backups'[b].db = backups[b].db /\ backups'[b].steady = backups[b].steady
          /\ ~(backups[b].todo \subseteq files)
      BY <1>0, <2>7 DEF SkipFile, Backup
    <3> QED BY <1>0, <2>0, <2>a, <2>b, <3>1 DEF BackupOK
  <2>8. ASSUME NEW n \in Names, Damage(b, n) PROVE BackupOK(b)'
    <3>1. /\ backups[b].at = "done" /\ backups'[b].at = "done"
          /\ backups'[b].db = backups[b].db /\ backups'[b].steady = backups[b].steady
          /\ backups'[b].sum = backups[b].sum
      BY <1>0, <2>8 DEF Damage, Backup
    <3> QED BY <1>0, <2>0, <2>a, <2>b, <3>1 DEF BackupOK
  <2> QED BY <1>2, <2>1, <2>2, <2>3, <2>4, <2>5, <2>6, <2>7, <2>8 DEF BackupStep
<1>3. ASSUME NEW k \in Backups, Stop(k) PROVE BackupOK(b)'
  <2>1. CASE InProgress(b)
    BY <1>0, <1>3, <2>1, BackupUnsteady DEF Stop, Watched, Backup
  <2>2. CASE ~InProgress(b)
    <3>1. backups'[b] = backups[b]
      BY <1>3, <2>2 DEF Stop, Watched
    <3>2. ~(backups[b].steady /\ backups[b].at # "done")
      BY <1>0, <2>2 DEF BackupOK, InProgress
    <3> QED BY <1>0, <3>1, <3>2, BackupKept
  <2> QED BY <2>1, <2>2
<1>4. CASE Verify \/ CleanDatabase \/ LoadDatabase \/ RestoreFails
  BY <1>4, <1>a DEF Verify, CleanDatabase, LoadDatabase, RestoreFails, vars
<1>5. ASSUME ClearMedia \/ Up \/ \E n \in Names : ExtractFile(n) PROVE BackupOK(b)'
  <2>1. site = "down" /\ backups' = backups
    BY <1>5 DEF ClearMedia, Up, ExtractFile, Restoring, BackupInv, RestoreOK
  <2>2. ~(backups[b].steady /\ backups[b].at # "done")
    BY <1>0, <2>1 DEF BackupOK, Serving
  <2> QED BY <1>0, <2>1, <2>2, BackupKept
<1>6. CASE UNCHANGED allVars
  BY <1>6, <1>a DEF allVars, vars
<1> QED BY <1>1, <1>2, <1>3, <1>4, <1>5, <1>6 DEF NextAll, RestoreStep

-----------------------------------------------------------------------------
(* Where a restore is, and what the site may rely on.                      *)

LEMMA RestoreStays ==
  ASSUME BackupInv, [NextAll]_allVars
  PROVE  RestoreOK'
<1> USE DEF database, tools, Now
<1>0. /\ RestoreOK /\ backups \in [Backups -> Backup] /\ \A b \in Backups : backups[b] \in Backup
      /\ site \in {"up", "down"}
      /\ restore \in [at: RestoreSteps, from: Backups \cup {None}]
  BY DEF BackupInv, TypesOK
<1>a. ASSUME UNCHANGED <<database, site, restore>>,
             restore.at # "none" => backups'[restore.from] = backups[restore.from]
      PROVE  RestoreOK'
  BY <1>0, <1>a DEF RestoreOK, Intact, Sum
<1>1. CASE Serve
  <2>1. restore.at = "none"
    BY <1>0, <1>1 DEF Serve, RestoreOK
  <2> QED BY <1>0, <1>1, <2>1 DEF Serve, RestoreOK, NoRestore
<1>2. ASSUME NEW b \in Backups, BackupStep(b) PROVE RestoreOK'
  <2>1. UNCHANGED <<database, site, restore>>
    BY <1>2 DEF BackupStep, Dump, Archive, Checksum, BackupFails, ArchiveFile, SkipFile,
                Damage, vars
  <2>2. backups[b].at # "done" \/ restore.from # b
    BY <1>2 DEF BackupStep, Dump, Archive, Checksum, BackupFails, ArchiveFile, SkipFile,
                Damage, InProgress
  <2>3. \A k \in Backups : k # b => backups'[k] = backups[k]
    BY <1>0, <1>2 DEF BackupStep, Dump, Archive, Checksum, BackupFails, ArchiveFile, SkipFile,
                      Damage
  <2>4. restore.at # "none" => backups'[restore.from] = backups[restore.from]
    BY <1>0, <2>2, <2>3 DEF RestoreOK
  <2> QED BY <1>a, <2>1, <2>4
<1>3. ASSUME NEW b \in Backups, Stop(b) PROVE RestoreOK'
  <2>1. /\ restore' = [at |-> "stopped", from |-> b] /\ site' = "down"
        /\ backups[b].at = "done"
    BY <1>3 DEF Stop
  <2>2. backups'[b] = backups[b]
    BY <1>3, <2>1 DEF Stop, Watched, InProgress
  <2> QED BY <2>1, <2>2 DEF RestoreOK
<1>b. ASSUME NEW from, NEW to \in {"verified", "cleaned", "loaded", "cleared"},
             from # "none", Restoring(from, to), backups' = backups, site' = site
      PROVE  /\ restore.at = from /\ restore'.at = to /\ restore'.from = restore.from
             /\ restore.from \in Backups /\ site = "down" /\ site' = "down"
             /\ backups'[restore.from].at = "done"
             /\ Intact(restore.from) => Intact(restore.from)'
  <2>1. restore.at = from /\ restore'.at = to /\ restore'.from = restore.from
    BY <1>0, <1>b DEF Restoring
  <2> QED BY <1>0, <1>b, <2>1 DEF RestoreOK, Intact, Sum
<1>4. CASE Verify
  <2>1. Restoring("stopped", "verified") /\ Intact(restore.from) /\ backups' = backups
        /\ site' = site
    BY <1>4 DEF Verify
  <2> QED BY <1>b, <2>1 DEF RestoreOK
<1>5. CASE CleanDatabase
  <2>1. Restoring("verified", "cleaned") /\ backups' = backups /\ site' = site
    BY <1>5 DEF CleanDatabase
  <2> QED BY <1>0, <1>b, <2>1 DEF RestoreOK, Intact, Sum
<1>6. CASE LoadDatabase
  <2>1. Restoring("cleaned", "loaded") /\ backups' = backups /\ site' = site
        /\ alive' = backups[restore.from].db.alive
        /\ issued' = backups[restore.from].db.issued
        /\ images' = backups[restore.from].db.images
    BY <1>6 DEF LoadDatabase
  <2>2. restore.at = "cleaned" /\ restore'.at = "loaded" /\ restore'.from = restore.from
        /\ restore.from \in Backups /\ site' = "down" /\ backups[restore.from].at = "done"
    BY <1>b, <2>1
  <2>3. backups[restore.from].db
          = [alive |-> alive', issued |-> issued', images |-> images']
    <3>1. backups[restore.from].db \in Snapshot
      BY <2>2 DEF BackupInv, BackupOK
    <3> QED BY <2>1, <3>1 DEF Snapshot
  <2> QED BY <1>0, <2>1, <2>2, <2>3 DEF RestoreOK, Intact, Sum
<1>7. CASE ClearMedia
  <2>1. Restoring("loaded", "cleared") /\ backups' = backups /\ site' = site
        /\ UNCHANGED database
    BY <1>7 DEF ClearMedia
  <2> QED BY <1>0, <1>b, <2>1 DEF RestoreOK, Intact, Sum
<1>8. CASE \E n \in Names : ExtractFile(n)
  BY <1>8, <1>a DEF ExtractFile
<1>9. CASE Up \/ RestoreFails
  BY <1>9 DEF Up, RestoreFails, RestoreOK, NoRestore
<1>10. CASE UNCHANGED allVars
  BY <1>10, <1>a DEF allVars, vars
<1> QED
  BY <1>1, <1>2, <1>3, <1>4, <1>5, <1>6, <1>7, <1>8, <1>9, <1>10 DEF NextAll, RestoreStep

(* The database and the files that Up starts with are those of a backup,   *)
(* and no request is left from before.                                     *)
LEMMA UpServes ==
  ASSUME BackupInv, Up, Serving', NEW n \in Names \ raced'
  PROVE  Exclusive(n)'
<1> USE DEF database, tools
<1> DEFINE b == restore.from
<1>0. /\ restore.at = "cleared" /\ files = backups[b].media /\ backups[b].steady
      /\ b \in Backups /\ backups[b].at = "done" /\ Intact(b) /\ backups[b].db = Now
      /\ \A w \in Workers : req[w] = Idle
  BY DEF Up, Serving, BackupInv, RestoreOK, SiteOK
<1>1. UNCHANGED vars /\ n \in Names \ raced
  BY DEF Up, vars
<1>2. images \in [Events -> ImageNames] /\ n # None
  BY ConstantAssumption DEF BackupInv, TypesOK, TypeOK
<1>3. DumpNames(b) \subseteq files \cup raced
  <2>1. BackupOK(b)
    BY <1>0 DEF BackupInv
  <2>2. backups[b].sum[2] = backups[b].media
    BY <1>0 DEF Intact, Sum
  <2> QED BY <1>0, <2>1, <2>2 DEF BackupOK
<1>4. Referenced(n) => n \in files
  <2> SUFFICES ASSUME NEW e \in Events, NEW c \in Columns, images[e][c] = n
               PROVE  n \in files
    BY DEF Referenced
  <2>1. n \in Named(images[e])
    BY <1>1, <1>2, NamesOfRow
  <2>2. backups[b].db.images = images
    BY <1>0 DEF Now
  <2>3. n \in DumpNames(b)
    BY <2>1, <2>2 DEF DumpNames
  <2> QED BY <1>1, <1>3, <2>3
<1>5. \A w \in Workers : Named(req[w].new) = {} /\ req[w].at = "idle"
  BY <1>0, BlankRow DEF Idle
<1>6. Exclusive(n)
  BY <1>4, <1>5 DEF Exclusive
<1> QED BY <1>1, <1>6 DEF vars, Exclusive, Referenced

LEMMA SiteStays ==
  ASSUME BackupInv, [NextAll]_allVars
  PROVE  SiteOK'
<1> USE DEF database, tools
<1>0. SiteOK
  BY DEF BackupInv
<1>a. ASSUME UNCHANGED <<vars, site, tainted>> PROVE SiteOK'
  BY <1>0, <1>a DEF SiteOK, Serving, Exclusive, Referenced, vars
<1>b. ASSUME site' = "down", \A w \in Workers : req'[w] = Idle PROVE SiteOK'
  BY <1>b DEF SiteOK, Serving
<1>1. CASE Serve
  <2>1. site' = "up" /\ (Serving' => Serving)
    BY <1>1 DEF Serve, Serving
  <2>2. ASSUME Serving, NEW n \in Names \ raced' PROVE Exclusive(n)'
    <3>1. ImagesInv
      BY <1>0, <2>2 DEF ImagesInv, BackupInv, SiteOK
    <3> QED BY <1>1, <2>2, <3>1, ExclusiveStep DEF Serve
  <2> QED BY <2>1, <2>2 DEF SiteOK
<1>2. ASSUME NEW b \in Backups, BackupStep(b) PROVE SiteOK'
  BY <1>2, <1>a DEF BackupStep, Dump, Archive, Checksum, BackupFails, ArchiveFile, SkipFile,
                    Damage
<1>3. ASSUME NEW b \in Backups, Stop(b) PROVE SiteOK'
  BY <1>3, <1>b DEF Stop
<1>4. CASE Verify \/ RestoreFails
  BY <1>4, <1>a DEF Verify, RestoreFails
<1>5. CASE CleanDatabase \/ LoadDatabase \/ ClearMedia \/ \E n \in Names : ExtractFile(n)
  <2>1. site = "down" /\ site' = site /\ req' = req
    BY <1>5 DEF CleanDatabase, LoadDatabase, ClearMedia, ExtractFile, Restoring, BackupInv,
                RestoreOK
  <2> QED BY <1>0, <1>b, <2>1 DEF SiteOK
<1>6. CASE Up
  BY <1>6, UpServes DEF SiteOK, Up
<1>7. CASE UNCHANGED allVars
  BY <1>7, <1>a DEF allVars
<1> QED BY <1>1, <1>2, <1>3, <1>4, <1>5, <1>6, <1>7 DEF NextAll, RestoreStep

-----------------------------------------------------------------------------
(* Through any sequence of requests, backups, failures and restores, the   *)
(* database and the files are what BackupInv says.                         *)
THEOREM BackupInvariant == SpecAll => []BackupInv
<1>1. BackupInv /\ [NextAll]_allVars => BackupInv'
  BY TypesStep, BackupsStep, RestoreStays, SiteStays DEF BackupInv
<1> QED BY <1>1, BackupInit, PTL DEF SpecAll

(* Every variable of Backup and of Media keeps its type.                   *)
THEOREM TypesCorrect == SpecAll => []TypesOK
<1>1. BackupInv => TypesOK
  BY DEF BackupInv
<1> QED BY <1>1, BackupInvariant, PTL

(* A backup made while the site served and deleted no file has every image *)
(* its database names, whatever else requests did between pg_dump and tar. *)
THEOREM SteadyBackupsMatch == SpecAll => []SteadyMatched
<1>1. ASSUME BackupInv, NEW b \in Backups, backups[b].at = "done", backups[b].steady,
             Intact(b)
      PROVE  DumpNames(b) \subseteq backups[b].media \cup raced
  <2>1. BackupOK(b) /\ backups[b].sum[2] = backups[b].media
    BY <1>1 DEF BackupInv, Intact, Sum
  <2> QED BY <1>1, <2>1 DEF BackupOK
<1>2. BackupInv => SteadyMatched
  BY <1>1 DEF SteadyMatched
<1> QED BY <1>2, BackupInvariant, PTL

(* A site that is up has the images its database names, until it restores  *)
(* an unsteady backup.                                                     *)
THEOREM ImagesServed == SpecAll => []ServedImages
<1>1. BackupInv => ServedImages
  BY DEF BackupInv, SiteOK, ServedImages, ImagesStored, Exclusive, Referenced, TypesOK,
         TypeOK, ImageNames
<1> QED BY <1>1, BackupInvariant, PTL

(* A site that comes up has the database and the files of one backup, as   *)
(* they were when its checksums were taken.                                *)
THEOREM WholeRestores == SpecAll => RestoredWhole
<1> DEFINE Whole == site = "down" /\ site' = "up" =>
                      \E b \in Backups : /\ backups[b].sum = <<Now', files'>>
                                         /\ backups[b].at = "done"
<1>1. ASSUME BackupInv, [NextAll]_allVars, site = "down", site' = "up"
      PROVE  \E b \in Backups : /\ backups[b].sum = <<Now', files'>>
                                /\ backups[b].at = "done"
  <2>1. Up
    BY <1>1 DEF NextAll, Serve, BackupStep, RestoreStep, Dump, Archive, Checksum, BackupFails,
                ArchiveFile, SkipFile, Damage, Stop, Verify, CleanDatabase, LoadDatabase,
                ClearMedia, ExtractFile, RestoreFails, allVars
  <2>2. restore.at = "cleared" /\ files = backups[restore.from].media /\ UNCHANGED vars
    BY <2>1 DEF Up
  <2>3. /\ restore.from \in Backups /\ backups[restore.from].at = "done"
        /\ Intact(restore.from) /\ backups[restore.from].db = Now
    BY <1>1, <2>2 DEF BackupInv, RestoreOK
  <2>4. Now' = Now /\ files' = files
    BY <2>2 DEF Now, vars, database
  <2> QED BY <2>2, <2>3, <2>4 DEF Intact, Sum
<1>2. BackupInv /\ [NextAll]_allVars => [Whole]_allVars
  BY <1>1
<1> QED BY <1>2, BackupInvariant, PTL DEF RestoredWhole, SpecAll

-----------------------------------------------------------------------------
(* Staff who work one after the other need no exception for names given    *)
(* out while another request held them: a steady backup is matched, and a  *)
(* site has its images, unless it was restored from an unsteady backup.    *)
WholeBackups ==
  /\ \A b \in Backups :
       backups[b].at = "done" /\ backups[b].steady /\ Intact(b)
         => DumpNames(b) \subseteq backups[b].media
  /\ Serving => NamedAreStored

(* docker-compose's backup and restore.ps1 under requests that do not      *)
(* overlap: backups may run beside each of them and restores end them.  An *)
(* intact backup during which no file was deleted, of a site not restored  *)
(* from one during which a file was, holds each image its dump names, and  *)
(* while such a site is up each image it names is stored.                  *)
THEOREM SerialBackupsWhole == SpecAll /\ []Serial => []WholeBackups
<1>1. InitAll => NothingRaced
  BY DEF InitAll, Init, NothingRaced
<1>2. ASSUME BackupInv, Serial, NothingRaced, [NextAll]_allVars
      PROVE  NothingRaced'
  <2>1. CASE Serve
    BY <1>2, <2>1, SerialStep DEF Serve, BackupInv
  <2>2. CASE ~Serve
    BY <1>2, <2>2 DEF NothingRaced, NextAll, BackupStep, RestoreStep, Dump, Archive, Checksum,
       BackupFails, ArchiveFile, SkipFile, Damage, Stop, Verify, CleanDatabase, LoadDatabase,
       ClearMedia, ExtractFile, Up, RestoreFails, allVars, vars, database
  <2>. QED BY <2>1, <2>2
<1>3. SteadyMatched /\ ServedImages /\ NothingRaced => WholeBackups
  BY DEF SteadyMatched, ServedImages, NothingRaced, WholeBackups, ImagesStored, NamedAreStored
<1>. QED BY <1>1, <1>2, <1>3, BackupInvariant, SteadyBackupsMatch, ImagesServed, PTL DEF SpecAll
=============================================================================
