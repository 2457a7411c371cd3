----------------------------- MODULE Downloader -----------------------------
(***************************************************************************)
(* class CurlDownloader of main.cpp: processes that download models into   *)
(* one directory and take whatever already has its name for the model.  A  *)
(* process can be killed and started again; the files stay.  The directory *)
(* may hold anything when the first of them starts; from then on nobody    *)
(* else writes to it.                                                      *)
(*                                                                         *)
(* A step is one system call or one answer of the network: a look at the   *)
(* directory, fopen, a part of the transfer, fclose.  A model has Parts    *)
(* parts, each as long as stdio's buffer, so that the part received last   *)
(* is in the buffer and reaches the file with the next one or with fclose. *)
(***************************************************************************)
EXTENDS Naturals

CONSTANTS
  Process,
  Url, Name,
  NameOf,    \* the last segment of each URL; NoName for a URL without a slash
  NoName, NoUrl,
  Itself,    \* the last segment of a URL that ends in '/', empty: its path is the directory's own
  Parts,     \* bound: the parts of a model
  Page,      \* bytes of no model; an error page is, to curl, which is not told to fail on it, a good answer
  Missing,   \* a part that is not in the file
  Directory, \* a directory is no file, and access finds it all the same
  NoFile

Content == [1..Parts -> Url \cup {Page, Missing}]

ASSUME NamesOfUrls ==
  NoName \notin Name /\ Itself \in Name /\ NoUrl \notin Url /\ NameOf \in [Url -> Name \cup {NoName}]
ASSUME PartsPositive == Parts \in Nat \ {0}
ASSUME ValuesDiffer ==
  /\ Page \notin Url /\ Missing \notin Url \cup {Page}
  /\ NoFile \notin Content \cup {Directory} /\ Directory \notin Content

VARIABLES
  pc,       \* where each process is; "absent": it is never started
  file,     \* the directory
  url,      \* the argument of each process's Download
  sent,     \* what the server answers to it, the model of the URL or a page
  got,      \* how many parts have been received
  ok,       \* re == CURLE_OK
  saved,    \* history: what the last download that opened the file, and those beside it, were sent
  broken    \* history: the files whose last downloads did not all end well

downloadVars == <<file, url, sent, got, ok, saved, broken>>
vars == <<pc, downloadVars>>

Inside == {"open", "transfer", "close"}                \* Download has not found the file
Over == {"returned", "exited", "terminated", "undefined"}
PC == {"absent", "none", "ready", "path", "failed"} \cup Inside \cup Over

Goto(p, l) == pc' = [pc EXCEPT ![p] = l]
Target(p) == NameOf[url[p]]
Busy(n) == {p \in Process : pc[p] \in {"transfer", "close"} /\ Target(p) = n}

Found == Content \cup {Directory, NoFile}

(* The processes find a directory with anything in it; or model_dir_ names *)
(* a plain file, which the constructor's test lets pass and which has      *)
(* nothing in it.                                                          *)
Init ==
  /\ pc \in [Process -> {"none", "absent"}]
  /\ file \in [Name -> Found] /\ file[Itself] \in {Directory, NoFile}
  /\ file[Itself] = NoFile => \A n \in Name : file[n] = NoFile
  /\ url = [p \in Process |-> NoUrl] /\ sent = [p \in Process |-> Page]
  /\ got = [p \in Process |-> 0] /\ ok = [p \in Process |-> FALSE]
  /\ saved = [n \in Name |-> {}] /\ broken = {}

-----------------------------------------------------------------------------
\* The constructor; std::exit if the directory cannot be written to.
Construct(p) ==
  /\ pc[p] \in {"none"} \cup Over
  /\ \E l \in {"ready", "exited"} : Goto(p, l)
  /\ url' = [url EXCEPT ![p] = NoUrl]
  /\ UNCHANGED <<file, sent, got, ok, saved, broken>>

\* p's FILE and re are no more.
Forget(p) ==
  /\ sent' = [sent EXCEPT ![p] = Page]
  /\ got' = [got EXCEPT ![p] = 0]
  /\ ok' = [ok EXCEPT ![p] = FALSE]

\* Mutant: an existing file is taken for a failed download's and fetched again.
MutantDownload(p, u) ==
  /\ pc[p] \in {"ready", "path", "failed"}
  /\ url' = [url EXCEPT ![p] = u]
  /\ Goto(p, IF NameOf[u] = NoName THEN "terminated" ELSE "open")
  /\ UNCHANGED <<file, sent, got, ok, saved, broken>>

\* Download up to its test: substr throws on a URL without a slash, an existing file is enough.
Download(p, u) ==
  /\ pc[p] \in {"ready", "path", "failed"}
  /\ url' = [url EXCEPT ![p] = u]
  /\ Goto(p, IF NameOf[u] = NoName THEN "terminated"
             ELSE IF file[NameOf[u]] = NoFile THEN "open" ELSE "path")
  /\ UNCHANGED <<file, sent, got, ok, saved, broken>>

(* fopen "wb" empties the file, whoever has made it since the test; it     *)
(* needs a directory.  Without a file, curl and fclose get a null pointer. *)
Open(p) ==
  /\ pc[p] = "open"
  /\ \/ /\ file[Itself] = Directory /\ Goto(p, "transfer")
        /\ file' = [file EXCEPT ![Target(p)] = [k \in 1..Parts |-> Missing]]
        /\ got' = [got EXCEPT ![p] = 0]
        /\ \E s \in {url[p], Page} :
             /\ sent' = [sent EXCEPT ![p] = s]
             /\ saved' = [saved EXCEPT ![Target(p)] = {s} \cup {sent[q] : q \in Busy(Target(p))}]
        /\ broken' = broken \ {Target(p)}
     \/ Goto(p, "undefined") /\ UNCHANGED <<file, got, sent, saved, broken>>
  /\ UNCHANGED <<url, ok>>

\* The file once the part that is in p's buffer is in it.
Flushed(p) ==
  IF got[p] = 0 THEN file ELSE [file EXCEPT ![Target(p)][got[p]] = sent[p]]

Receive(p) ==
  /\ pc[p] = "transfer" /\ got[p] < Parts
  /\ file' = Flushed(p)
  /\ got' = [got EXCEPT ![p] = @ + 1]
  /\ UNCHANGED <<pc, url, sent, ok, saved, broken>>

\* curl_easy_perform returns: all was received, or the transfer broke off.
Perform(p) ==
  /\ pc[p] = "transfer"
  /\ \E r \in BOOLEAN : (r => got[p] = Parts) /\ ok' = [ok EXCEPT ![p] = r]
  /\ Goto(p, "close")
  /\ UNCHANGED <<file, url, sent, got, saved, broken>>

\* Mutant: the handle is not closed, and the last part stays in the buffer.
MutantClose(p) ==
  /\ pc[p] = "close"
  /\ Goto(p, IF ok[p] THEN "path" ELSE "failed")
  /\ Forget(p)
  /\ broken' = IF ok[p] THEN broken ELSE broken \cup {Target(p)}
  /\ UNCHANGED <<file, url, saved>>

\* Mutant: a download that failed is tried again, for ever.
MutantRetry(p) ==
  /\ pc[p] = "close"
  /\ Goto(p, IF ok[p] THEN "path" ELSE "open")
  /\ file' = Flushed(p)
  /\ broken' = IF ok[p] THEN broken ELSE broken \cup {Target(p)}
  /\ Forget(p)
  /\ UNCHANGED <<url, saved>>

(* The return statement and ~FileHandle: fclose writes the rest, or fails, *)
(* and nobody looks at what it returns.                                    *)
Close(p) ==
  /\ pc[p] = "close"
  /\ Goto(p, IF ok[p] THEN "path" ELSE "failed")
  /\ \/ file' = Flushed(p) /\ broken' = IF ok[p] THEN broken ELSE broken \cup {Target(p)}
     \/ UNCHANGED file /\ broken' = broken \cup {Target(p)}
  /\ Forget(p)
  /\ UNCHANGED <<url, saved>>

\* The program that has the downloader returns, and ~CurlDownloader cleans curl up.
Return(p) ==
  /\ pc[p] \in {"ready", "path", "failed"} /\ Goto(p, "returned")
  /\ UNCHANGED downloadVars

\* The process is killed: what was in the buffer is lost.
Kill(p) ==
  /\ pc[p] \notin {"absent", "none"} \cup Over
  /\ Goto(p, "none") /\ Forget(p)
  /\ url' = [url EXCEPT ![p] = NoUrl]
  /\ broken' = IF pc[p] \in {"transfer", "close"} THEN broken \cup {Target(p)} ELSE broken
  /\ UNCHANGED <<file, saved>>

Next ==
  \E p \in Process :
    \/ Construct(p) \/ Open(p) \/ Receive(p) \/ Perform(p) \/ Close(p) \/ Return(p) \/ Kill(p)
    \/ \E u \in Url : Download(p, u)

Spec == Init /\ [][Next]_vars

-----------------------------------------------------------------------------
Model(u) == [k \in 1..Parts |-> u]

(* A path that Download has returned names the whole model of its URL,     *)
(* found or fetched, unless the last downloads into that file were killed, *)
(* broken off or lost their last part; one is still going on; the file was *)
(* sent something else, an error page or the model of another URL with the *)
(* same last segment; or none of the processes has ever opened it: then it *)
(* is what the first of them found in the directory, or the directory.     *)
PathNamesModel ==
  \A p \in Process : pc[p] = "path" =>
    \/ file[Target(p)] = Model(url[p])
    \/ Target(p) \in broken \/ Busy(Target(p)) # {}
    \/ saved[Target(p)] \ {url[p]} # {}
    \/ saved[Target(p)] = {}

\* The file is there, and nobody is about to write it.
Settled(n) == file[n] # NoFile /\ \A p \in Process : pc[p] \in Inside => Target(p) # n

(* Once a file is there and nobody writes it, nobody ever will, and it     *)
(* stays as it is, through kills, restarts and any further calls: a whole  *)
(* model is not fetched again, and what a download left behind when it     *)
(* failed is not repaired.                                                 *)
FilesStay == [][\A n \in Name : Settled(n) => Settled(n)' /\ file'[n] = file[n]]_vars
=============================================================================
