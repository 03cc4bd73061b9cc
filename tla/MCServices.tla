----------------------------- MODULE MCServices -----------------------------
(* Stores and servers that share no state, each by itself in one run: `part' *)
(* says which of them moves.  The others keep their initial state.           *)
EXTENDS DurableObject, ObjectStore, KeyStore, Transactions, Tracing, ViteServer, Routing, Assets, Cron, Bindings,
        Artifacts, Email, Watching, ObjectSockets, ObjectStorage, S3Chunks,
        S3Reads, TLC

CONSTANTS
  f1,
  MaxSteps  \* bound of an object's setAlarm calls, acts and ops together

P(segs, tail) == [segs |-> segs, tail |-> tail]
SomeCells == {<<97>>, <<65, 97>>, <<97, 95>>, <<97, 97>>}   \* a, Aa, a_, aa
SomePayloads == {<<18, 19>>, <<0>>}   \* CR LF, and the size of the last chunk
SomePrefixes == {<<>>, <<97>>, <<97, 95>>}
SomePatterns == {P(<<>>, "/*"), P(<<"a">>, "*"), P(<<"a">>, "/*"), P(<<"ab">>, "/*"), P(<<"a">>, "")}

VARIABLE part

Parts == {"object", "bucket", "keys", "file", "traces", "vite", "routes", "assets", "cron", "binding",
          "artifacts", "email", "watch", "sockets", "rows", "cursor", "upload", "read"}

Still(parts) ==
  /\ "object" \in parts => UNCHANGED vars
  /\ "bucket" \in parts => UNCHANGED storeVars
  /\ "keys" \in parts => UNCHANGED keyVars
  /\ "file" \in parts => UNCHANGED txnVars
  /\ "traces" \in parts => UNCHANGED traceVars
  /\ "vite" \in parts => UNCHANGED viteVars
  /\ "routes" \in parts => UNCHANGED routeVars
  /\ "assets" \in parts => UNCHANGED assetVars
  /\ "cron" \in parts => UNCHANGED cronVars
  /\ "binding" \in parts => UNCHANGED bindingVars
  /\ "artifacts" \in parts => UNCHANGED artifactVars
  /\ "email" \in parts => UNCHANGED mailVars
  /\ "watch" \in parts => UNCHANGED watchVars
  /\ "sockets" \in parts => UNCHANGED socketsVars
  /\ {"rows", "cursor"} \subseteq parts => UNCHANGED storageVars
  /\ "upload" \in parts => UNCHANGED uploadVars
  /\ "read" \in parts => UNCHANGED readVars

\* Bounds of the larger parts.  An object whose alarm is set twice is not disturbed as well;
\* only one key of a bucket has tags, and nobody reads it during an upload; a child span does
\* not fail by itself, and what upsets the traces twice finds one message under way; one
\* handling of the assets is varied at a time, and none when a second request comes.
FewDisturbed == sets' + acts' + ops' <= MaxSteps /\ (ops' = 0 \/ sets' <= 1)
FewTags == tagged' \subseteq {BigKey}
FewReaders == upload' => \A r \in Requests : request'[r].kind \notin {"list", "get", "tag"}
FewFailures == \A t \in Parents : work'[Child(t)] # "error"
FewPosted == Len(posted') > 1 => upsets' <= 1
FewModes == html = "auto-trailing-slash" \/ notFound = "none"
FewFetches == fetches' > 1 => html = "none"

ServicesInit ==
  /\ part \in Parts
  /\ Init /\ StoreInit /\ KeyInit /\ TraceInit
  /\ TxnInit /\ (part # "file" => binding = "do")
  /\ ViteInit /\ (part # "vite" => \A v \in Sources : lacks[v] = 0)
  /\ CronInit /\ (part # "cron" => matching = [c \in Crons |-> Minutes])
  /\ BindingsInit
  /\ part # "binding" => svc = [target |-> "absent", entry |-> "none"] /\ side = [q \in Callers |-> "main"]
  /\ ArtifactsInit
  /\ MailInit /\ (part # "email" => destination = NoAddress /\ allowed = {})
  /\ WatchInit /\ (part # "watch" => \A f \in SourceFiles : text[f].parses /\ text[f].imports = {})
  /\ SocketsInit /\ StorageInit
  /\ UploadInit /\ ReadInit
  /\ RoutingInit
  /\ part # "routes" => (\A w \in Workers : hosts[w] = {}) /\ (\A w \in ToSet(Aux) : ~routes[w].has)
  /\ AssetsInit
  /\ part # "assets" => /\ html = "none" /\ notFound = "none" /\ ~script /\ disk = {"index", "404", "p.html"}
                        /\ \A v \in RuleVersions : moves[v] = "none"
  /\ FewModes

ServicesNext ==
  /\ part' = part
  /\ Still(Parts \ {part})
  /\ \/ part = "object" /\ Next /\ FewDisturbed
     \/ part = "bucket" /\ StoreNext /\ FewTags /\ FewReaders
     \/ part = "keys" /\ KeyNext
     \/ part = "file" /\ TxnNext
     \/ part = "traces" /\ TraceNext /\ FewFailures /\ FewPosted
     \/ part = "vite" /\ ViteNext
     \/ part = "routes" /\ RoutingNext
     \/ part = "assets" /\ AssetsNext /\ FewFetches
     \/ part = "cron" /\ CronNext
     \/ part = "binding" /\ BindingsNext
     \/ part = "artifacts" /\ ArtifactsNext
     \/ part = "email" /\ MailNext
     \/ part = "watch" /\ WatchNext
     \/ part = "sockets" /\ SocketsNext
     \/ part = "rows" /\ RowsNext
     \/ part = "cursor" /\ CursorNext
     \/ part = "upload" /\ UploadNext
     \/ part = "read" /\ ReadNext

servicesVars ==
  <<part, vars, storeVars, keyVars, txnVars, traceVars, viteVars, routeVars, assetVars, cronVars,
    bindingVars, artifactVars, mailVars, watchVars, socketsVars, storageVars, uploadVars, readVars>>

ServicesSpec == ServicesInit /\ [][ServicesNext]_servicesVars

-----------------------------------------------------------------------------
\* What was stored is found again, and once, whichever way it is listed, in KV, in
\* the cache and in the storage of a Durable Object; what an S3 client uploads in chunks
\* is stored as it was before it was framed, and the part of it that is asked for is given
\* under the conditions of HTTP (kv.ts, cache.ts, SyncKV.list, chunked.ts, headers.ts).
StoredFound == KeysKept /\ StorageTrue /\ UploadTrue /\ ReadsTrue
=============================================================================
