-------------------------- MODULE StageExecutorClaims --------------------------
(* What the documentation of the executor says and the code does not do.      *)
EXTENDS StageExecutor

\* executor.py:64: "Artifacts always go to MinIO."  With MinIO up, the files a
\* stage has written are there when it reports, as the next stage downloads them.
ArtifactsGoToMinIO ==
    Unspent({"minioDown"}) =>
        \A w \in Workers : At(w, "report") =>
            \A f \in Files : factory[f] = frame[w].exec => minio[f] = factory[f]
===============================================================================
