------------------------------ MODULE Artifacts ------------------------------
(***************************************************************************)
(* The Artifacts binding (bindings/artifacts.ts) and its git endpoint      *)
(* (artifacts-git-http.ts): rows for repositories and tokens in SQLite, a   *)
(* bare git repository on disk for each row.  Making one looks for the     *)
(* name, awaits git and inserts its row afterwards; nothing is locked.      *)
(***************************************************************************)
EXTENDS Naturals, Sequences, FiniteSetsExt

CONSTANTS
  Names,     \* of repositories
  Makers,    \* calls of create, import and fork
  MaxTokens, MaxNow, \* bounds on tokens and on the clock
  PageLimit  \* of list

ASSUME ArtifactsAssumption ==
  /\ IsFiniteSet(Makers) /\ {MaxTokens, MaxNow} \subseteq Nat /\ PageLimit \in Nat \ {0}

VARIABLES
  repoRow,   \* artifacts_repos by id
  repoDir,   \* ids whose directory is on disk
  making,    \* what each call that makes a repository is doing
  held,      \* ids of which somebody holds an ArtifactsRepo
  tokens,    \* artifacts_tokens
  artNow,       \* Date.now()
  client,    \* somebody who speaks to the git endpoint or follows the cursors of list()
  pushed     \* ids whose directory was written by a push

artifactVars == <<repoRow, repoDir, making, held, tokens, artNow, client, pushed>>

RepoIds == 1..Cardinality(Makers)
NoRow == [name |-> "none"]
NoClient == [phase |-> "idle"]
NotMaking == [phase |-> "idle", id |-> 0]
Repos == {id \in RepoIds : repoRow[id] # NoRow}
Named(name) == {id \in Repos : repoRow[id].name = name}

ArtifactsInit ==
  /\ repoRow = [id \in RepoIds |-> NoRow] /\ repoDir = {}
  /\ making = [m \in Makers |-> NotMaking]
  /\ held = {} /\ tokens = <<>> /\ artNow = 1
  /\ client = NoClient /\ pushed = {}

-----------------------------------------------------------------------------
(* Repositories.                                                           *)

\* issueToken: a ttl of 0 is no ttl.
Issue(id, scope, ttl) ==
  tokens' = Append(tokens, [repo |-> id, scope |-> scope, revoked |-> 0,
                            expires |-> IF ttl = 0 THEN 0 ELSE artNow + ttl])

\* The lookup of the name, and a directory under a fresh id, made at once or by git.
BeginRepo(m, name, source) ==
  /\ making[m].phase = "idle"
  /\ LET id == 1 + Cardinality({k \in Makers : making[k].id # 0})
     IN IF Named(name) # {}
        THEN UNCHANGED <<making, repoDir>>
        ELSE \E readOnly \in BOOLEAN :
               /\ making' = [making EXCEPT ![m] =
                    [phase |-> "git", name |-> name, id |-> id,
                     readOnly |-> readOnly, source |-> source]]
               /\ repoDir' = repoDir \cup {id}
  /\ UNCHANGED <<repoRow, held, tokens, artNow, client, pushed>>

\* create and import: from nothing that could change here.
CreateRepo(m, name) == BeginRepo(m, name, 0)
Import(m, name) == BeginRepo(m, name, 0)

\* _forkRepo: of the directory of its source, which may be gone.
Fork(m, name) == \E source \in held : BeginRepo(m, name, source)

\* git failed: its directory is removed.
GitFails(m) ==
  /\ making[m].phase = "git"
  /\ making' = [making EXCEPT ![m] = [phase |-> "failed", id |-> @.id]]
  /\ repoDir' = repoDir \ {making[m].id}
  /\ UNCHANGED <<repoRow, held, tokens, artNow, client, pushed>>

\* git succeeded: the INSERT, which a name that was taken meanwhile refuses (the
\* directory is left), and the first token.
GitSucceeds(m) ==
  /\ making[m].phase = "git" /\ Len(tokens) < MaxTokens
  /\ making[m].source # 0 => making[m].source \in repoDir
  /\ IF Named(making[m].name) # {}
     THEN /\ making' = [making EXCEPT ![m] = [phase |-> "lost", id |-> @.id]]
          /\ UNCHANGED <<repoRow, tokens>>
     ELSE /\ making' = [making EXCEPT ![m] = [phase |-> "done", id |-> @.id]]
          /\ repoRow' = [repoRow EXCEPT ![making[m].id] =
               [name |-> making[m].name, readOnly |-> making[m].readOnly, at |-> artNow]]
          /\ Issue(making[m].id, "write", 0)
  /\ UNCHANGED <<repoDir, held, artNow, client, pushed>>

Get(name) ==
  /\ held' = held \cup Named(name)
  /\ UNCHANGED <<repoRow, repoDir, making, tokens, artNow, client, pushed>>

DeleteRepo(name) ==
  \E id \in Named(name) :
    /\ tokens' = [t \in DOMAIN tokens |->
         IF tokens[t].repo = id THEN [tokens[t] EXCEPT !.repo = 0] ELSE tokens[t]]
    /\ repoRow' = [repoRow EXCEPT ![id] = NoRow]
    /\ repoDir' = repoDir \ {id}
    /\ client' = IF client.phase # "paging" THEN client
                 ELSE [phase |-> "paging", missed |-> client.missed \ {id}, cursor |-> client.cursor]
    /\ UNCHANGED <<making, held, artNow, pushed>>

\* Mutant: the cursor names the last repository of the page, not the next one.
Page_AfterLast(cursor) == {id \in Repos : repoRow[id].at > cursor}

Page(cursor) == {id \in Repos : repoRow[id].at >= cursor}

\* list: up to PageLimit rows in the order of created_at, and where to go on.
Earlier(a, b) ==
  repoRow[a].at < repoRow[b].at \/ (repoRow[a].at = repoRow[b].at /\ a <= b)

List ==
  /\ client.phase \in {"idle", "paging"}
  /\ LET first == client.phase = "idle"
         rest == Page(IF first THEN 0 ELSE client.cursor)
         rank(id) == Cardinality({o \in rest : Earlier(o, id)})
         page == {id \in rest : rank(id) <= PageLimit}
         next == {id \in rest : rank(id) = PageLimit + 1}
         missed == (IF first THEN Repos ELSE client.missed) \ page
     IN client' = IF next = {} THEN [phase |-> "listed", missed |-> missed]
                  ELSE [phase |-> "paging", missed |-> missed,
                        cursor |-> repoRow[CHOOSE id \in next : TRUE].at]
  /\ UNCHANGED <<repoRow, repoDir, making, held, tokens, artNow, pushed>>

-----------------------------------------------------------------------------
(* Tokens, through a handle that may be stale.                             *)

CreateToken(id, scope, ttl) ==
  /\ id \in held /\ Len(tokens) < MaxTokens
  /\ Issue(id, scope, ttl)
  /\ UNCHANGED <<repoRow, repoDir, making, held, artNow, client, pushed>>

RevokeToken(id, t) ==
  /\ id \in held /\ t \in DOMAIN tokens
  /\ tokens[t].repo = id /\ tokens[t].revoked = 0
  /\ tokens' = [tokens EXCEPT ![t].revoked = artNow]
  /\ UNCHANGED <<repoRow, repoDir, making, held, artNow, client, pushed>>

-----------------------------------------------------------------------------
(* The git endpoint.                                                       *)

\* authenticate.
Authentic(id, t, write) ==
  LET row == tokens[t]
  IN /\ row.repo = id
     /\ row.revoked = 0
     /\ row.expires = 0 \/ row.expires >= artNow
     /\ write => row.scope = "write"

\* A request of any client, with any token: handleArtifactsGitRequest.
GitAsks(id, t, write) ==
  /\ client.phase = "idle" /\ t \in DOMAIN tokens
  /\ LET refused(status, meant) == [phase |-> "answered", status |-> status, sent |-> meant]
     IN client' =
          IF id \notin Repos THEN refused(404, 404)
          ELSE IF id \notin repoDir THEN refused(500, 404)
          ELSE IF write /\ repoRow[id].readOnly THEN refused(403, 403)
          ELSE IF ~Authentic(id, t, write) THEN refused(401, 401)
          ELSE [phase |-> "open", repo |-> id, token |-> t, write |-> write, since |-> artNow]
  /\ UNCHANGED <<repoRow, repoDir, making, held, tokens, artNow, pushed>>

\* What git http-backend prints: header lines, an empty line, and a body that may look
\* like either.
CgiHeads == {<<"type">>, <<"status", "eol", "type">>}
CgiBodies == {<<>>, <<"eol", "eol", "status">>}

\* parseCgiResponse: everything up to the first empty line are headers.
CgiResponse(raw) ==
  LET end == Min({i \in DOMAIN raw : i < Len(raw) /\ raw[i] = "eol" /\ raw[i + 1] = "eol"})
  IN [status |-> IF \E i \in 1..(end - 1) : raw[i] = "status" THEN 404 ELSE 200,
      body |-> SubSeq(raw, end + 2, Len(raw))]

\* proxyToGitHttpBackend: a push is over, or the directory went away under it.
BackendEnds ==
  /\ client.phase = "open"
  /\ IF client.repo \notin repoDir
     THEN client' = [phase |-> "answered", status |-> 500, sent |-> 500] /\ UNCHANGED pushed
     ELSE \E head \in CgiHeads, body \in CgiBodies :
            LET response == CgiResponse(head \o <<"eol", "eol">> \o body)
                sent == IF Len(head) = 1 THEN 200 ELSE 404
            IN /\ client' = [phase |-> "answered", status |-> response.status,
                             sent |-> IF response.body = body THEN sent ELSE 0]
               /\ pushed' = IF client.write /\ sent = 200 THEN pushed \cup {client.repo} ELSE pushed
  /\ UNCHANGED <<repoRow, repoDir, making, held, tokens, artNow>>

ClientGone == client.phase \in {"answered", "listed"} /\ client' = NoClient
              /\ UNCHANGED <<repoRow, repoDir, making, held, tokens, artNow, pushed>>

TimePasses == artNow < MaxNow /\ artNow' = artNow + 1
         /\ UNCHANGED <<repoRow, repoDir, making, held, tokens, client, pushed>>

ArtifactsNext ==
  \/ \E m \in Makers :
       \/ \E name \in Names : CreateRepo(m, name) \/ Import(m, name) \/ Fork(m, name)
       \/ GitFails(m) \/ GitSucceeds(m)
  \/ \E name \in Names : Get(name) \/ DeleteRepo(name)
  \/ \E id \in RepoIds :
       \/ \E scope \in {"read", "write"}, ttl \in {0, 1} : CreateToken(id, scope, ttl)
       \/ \E t \in 1..MaxTokens :
            RevokeToken(id, t) \/ \E write \in BOOLEAN : GitAsks(id, t, write)
  \/ List \/ BackendEnds \/ ClientGone \/ TimePasses

ArtifactsSpec == ArtifactsInit /\ [][ArtifactsNext]_artifactVars
-----------------------------------------------------------------------------
\* However calls with one name overlap: a name has one row, a row has its directory, and
\* only calls that are making or that lost the name to another leave one without
\* a row (create, import, _forkRepo, delete).  A listing that ends has shown every
\* repository that was there all the time, whatever came and went between its pages
\* (list).  git is opened with a token of that very repository, in force when the
\* request came, never of one that was deleted, even if its name was taken again, and
\* nothing is pushed to a read-only one (authenticate); the answer is what git
\* said (parseCgiResponse).
ArtifactsKept ==
  /\ \A a, b \in Repos : repoRow[a].name = repoRow[b].name => a = b
  /\ Repos \subseteq repoDir
  /\ \A id \in repoDir \ Repos : \E m \in Makers : making[m].id = id /\ making[m].phase \in {"git", "lost"}
  /\ client.phase = "listed" => client.missed = {}
  /\ client.phase = "open" =>
       LET row == tokens[client.token]
       IN /\ row.repo = client.repo \/ client.repo \notin Repos
          /\ row.revoked = 0 \/ row.revoked >= client.since
          /\ client.write => row.scope = "write"
  /\ \A id \in pushed \cap Repos : ~repoRow[id].readOnly
  /\ client.phase = "answered" => client.status = client.sent
=============================================================================
