----------------------------- MODULE StaticFiles -----------------------------
(***************************************************************************)
(* StaticHandler over an fs.FS that changes while requests are served:     *)
(* opening the path, falling back to the index of a directory and, in SPA  *)
(* mode, to the Index of the root, and the status each way ends in.        *)
(*                                                                         *)
(* A name is the sequence of its segments, << >> the root, which fs.FS     *)
(* calls "." and the handler calls "".  Requests are served one after the  *)
(* other: a handler shares nothing with another but the files.             *)
(***************************************************************************)
EXTENDS Naturals, SequencesExt

CONSTANTS
  Names,       (* the names that may exist below the root                  *)
  Urls,        (* what follows the prefix in the paths that clients ask for *)
  Index,       (* StaticConfig.Index, a segment                            *)
  Kinds,       (* what may be at a name besides "absent": "file", "dir",   *)
               (* "denied" (Open fails), "opaque" (a file without Seek)    *)
  MaxChanges   (* bound on the changes of the files during one request     *)

NoFile == <<"none">>

ASSUME StaticConstants ==
  /\ Names \subseteq Seq(STRING) \ {<< >>, NoFile}
  /\ \A n \in Names : Len(n) > 1 => Front(n) \in Names
  /\ <<Index>> \in Names
  /\ Kinds \subseteq {"file", "dir", "denied", "opaque"}

VARIABLES
  config,   (* the fields SPA and Browse of StaticConfig, and how its Root *)
            (* refuses the name "": as invalid (os.DirFS) or as absent     *)
            (* (embed.FS)                                                  *)
  files,    (* what is at each name                                        *)
  pc,
  name,     (* the variable filepath of the handler                        *)
  opened,   (* the kind of the file that is open                           *)
  answer,   (* status, and the name whose content was served               *)
  views,    (* history: the files at each moment of the request            *)
  changes,
  failed    (* history: a Stat of this request has failed                  *)

staticVars == <<config, files, pc, name, opened, answer, views, changes, failed>>

Trees ==
  {t \in [Names -> Kinds \cup {"absent"}] :
     /\ \A n \in Names : Len(n) > 1 /\ t[n] # "absent" => t[Front(n)] = "dir"
     /\ \A n \in Names : Last(n) = Index => t[n] # "dir"}

Configs == [SPA : BOOLEAN, Browse : BOOLEAN, Empty : {"invalid", "absent"}]
Answer(status, n) == answer' = [status |-> status, name |-> n]

(* Mistaken forms of the definitions below: a directory taken for missing, *)
(* the index of the root for that of every directory, no SPA after a       *)
(* directory without index.                                                *)
MissingUnlessFile(kind) == kind # "file"
RootIndex(n) == <<Index>>
NoFallback == Answer(404, NoFile) /\ pc' = "idle"

----------------------------------------------------------------------------
(* path.Clean of a rooted path, without its slash. *)
Clean(url) ==
  LET Step(done, s) ==
        IF s \in {"", "."} THEN done
        ELSE IF s = ".." THEN IF done = << >> THEN done ELSE Front(done)
        ELSE Append(done, s)
  IN  FoldLeft(Step, << >>, url)

(* What Open finds; "" is not a name that fs.FS allows. *)
At(n) ==
  IF n = << >> THEN config.Empty ELSE IF n \in Names THEN files[n] ELSE "absent"
IndexOf(n) == Append(n, Index)
Missing(kind) == kind = "absent"
Opens(kind) == kind \in {"file", "dir", "opaque"}

Goto(place) == pc' = place
Same == UNCHANGED <<config, files, name, views, changes, failed>>
Faulted == failed' = TRUE /\ UNCHANGED <<config, files, name, views, changes>>

(* serveContent: only a file that can Seek is served. *)
ServeContent(kind, n) ==
  IF kind = "opaque" THEN Answer(500, NoFile) ELSE Answer(200, n)

Request(url) ==
  /\ pc = "idle"
  /\ Goto("open")
  /\ name' = Clean(url)
  /\ opened' = "absent"
  /\ Answer(0, NoFile)
  /\ views' = {files}
  /\ changes' = 0
  /\ failed' = FALSE
  /\ UNCHANGED <<config, files>>

(* config.Root.Open(filepath) *)
Open ==
  /\ pc = "open"
  /\ Opens(At(name))
  /\ opened' = At(name)
  /\ Goto("stat")
  /\ Same /\ UNCHANGED answer

OpenMissing ==
  /\ pc = "open"
  /\ Missing(At(name))
  /\ \/ config.SPA /\ Goto("spa") /\ UNCHANGED answer
     \/ ~config.SPA /\ Goto("idle") /\ Answer(404, NoFile)
  /\ Same /\ UNCHANGED opened

OpenFails ==
  /\ pc = "open"
  /\ ~Opens(At(name)) /\ ~Missing(At(name))
  /\ Goto("idle")
  /\ Answer(500, NoFile)
  /\ Same /\ UNCHANGED opened

(* f.Stat, then the content of a file or the index of a directory. *)
Stat ==
  /\ pc = "stat"
  /\ \/ opened = "dir" /\ Goto("index") /\ UNCHANGED answer
     \/ opened # "dir" /\ Goto("idle") /\ ServeContent(opened, name)
  /\ Same /\ UNCHANGED opened

StatFails ==
  /\ pc = "stat"
  /\ Goto("idle")
  /\ Answer(500, NoFile)
  /\ Faulted /\ UNCHANGED opened

OpenIndex ==
  /\ pc = "index"
  /\ Opens(At(IndexOf(name)))
  /\ opened' = At(IndexOf(name))
  /\ Goto("indexStat")
  /\ Same /\ UNCHANGED answer

(* A directory that cannot be answered with its index. *)
Fallback ==
  IF config.Browse THEN Answer(403, NoFile) /\ Goto("idle")
  ELSE IF config.SPA THEN UNCHANGED answer /\ Goto("spa")
  ELSE Answer(404, NoFile) /\ Goto("idle")

NoIndex ==
  /\ pc = "index"
  /\ ~Opens(At(IndexOf(name)))
  /\ Fallback
  /\ Same /\ UNCHANGED opened

StatIndex ==
  /\ pc = "indexStat"
  /\ \/ opened = "opaque" /\ Fallback
     \/ opened # "opaque" /\ Goto("idle") /\ Answer(200, IndexOf(name))
  /\ Same /\ UNCHANGED opened

(* indexFunc returns the err of its Open, which is nil, and so does the    *)
(* handler; net/http completes the response.                               *)
StatIndexFails ==
  /\ pc = "indexStat"
  /\ Goto("idle")
  /\ Answer(200, NoFile)
  /\ Faulted /\ UNCHANGED opened

(* serveFile(c, config.Root, config.Index) *)
OpenSPA ==
  /\ pc = "spa"
  /\ Opens(At(<<Index>>))
  /\ opened' = At(<<Index>>)
  /\ Goto("spaStat")
  /\ Same /\ UNCHANGED answer

NoSPA ==
  /\ pc = "spa"
  /\ ~Opens(At(<<Index>>))
  /\ Goto("idle")
  /\ Answer(500, NoFile)
  /\ Same /\ UNCHANGED opened

StatSPA ==
  /\ pc = "spaStat"
  /\ Goto("idle")
  /\ ServeContent(opened, <<Index>>)
  /\ Same /\ UNCHANGED opened

StatSPAFails ==
  /\ pc = "spaStat"
  /\ Goto("idle")
  /\ Answer(500, NoFile)
  /\ Faulted /\ UNCHANGED opened

(* Somebody writes, renames or removes one file during a request; what     *)
(* happens between requests is in the choice of the initial files.         *)
Change(n, kind) ==
  /\ pc # "idle"
  /\ changes < MaxChanges
  /\ changes' = changes + 1
  /\ files' = [files EXCEPT ![n] = kind]
  /\ files' \in Trees \ {files}
  /\ views' = views \cup {files'}
  /\ UNCHANGED <<config, pc, name, opened, answer, failed>>

----------------------------------------------------------------------------
StaticInit ==
  /\ config \in Configs
  /\ files \in Trees
  /\ pc = "idle"
  /\ name = << >>
  /\ opened = "absent"
  /\ answer = [status |-> 0, name |-> NoFile]
  /\ views = {}
  /\ changes = 0
  /\ failed = FALSE

StaticNext ==
  \/ \E url \in Urls : Request(url)
  \/ Open \/ OpenMissing \/ OpenFails \/ Stat \/ StatFails
  \/ OpenIndex \/ NoIndex \/ StatIndex \/ StatIndexFails
  \/ OpenSPA \/ NoSPA \/ StatSPA \/ StatSPAFails
  \/ \E n \in Names, kind \in Kinds \cup {"absent"} : Change(n, kind)

StaticSpec == StaticInit /\ [][StaticNext]_staticVars

----------------------------------------------------------------------------
(* Properties. *)

(* What is at n; the root is a directory. *)
In(t, n) == IF n = << >> THEN "dir" ELSE IF n \in Names THEN t[n] ELSE "absent"

(* There is a file for n, or a directory with an index that can be served. *)
Servable(t, n) ==
  \/ In(t, n) \in {"file", "opaque"}
  \/ In(t, n) = "dir" /\ In(t, Append(n, Index)) = "file"

Answered == pc = "idle" /\ answer.status # 0

(* "Not found" and "forbidden" are true below the mount point: at some     *)
(* moment of the request the path had nothing to serve, however the files  *)
(* changed under it.                                                       *)
NotFoundIsTrue ==
  Answered /\ answer.status \in {403, 404} /\ name # << >> =>
    \E t \in views : ~Servable(t, name)

(* What is served was there during the request, as the path asked for, as  *)
(* the index of that directory or, in SPA mode, as the Index of a path     *)
(* that had nothing to serve, the mount point among them.                  *)
ServedWasThere ==
  Answered /\ answer.name # NoFile =>
    /\ \E t \in views : In(t, answer.name) = "file"
    /\ \/ answer.name \in {name, Append(name, Index)}
       \/ /\ config.SPA /\ answer.name = <<Index>>
          /\ name = << >> \/ \E t \in views : ~Servable(t, name)

(* In SPA mode with an Index that is there all the time, a path that can   *)
(* be read whenever it is there is answered with a file; or, with Browse,  *)
(* with "forbidden", but only where there has been a directory.  A Stat    *)
(* that fails, and a root that refuses the name of the mount point as      *)
(* invalid, are the exceptions.                                            *)
SPAServesIndex ==
  Answered /\ config.SPA /\ ~failed
      /\ (\A t \in views : In(t, <<Index>>) = "file" /\ In(t, name) \notin {"denied", "opaque"})
      /\ (name # << >> \/ config.Empty = "absent") =>
    \/ answer.status = 200 /\ answer.name # NoFile
    \/ config.Browse /\ answer.status = 403 /\ \E t \in views : In(t, name) = "dir"
=============================================================================
