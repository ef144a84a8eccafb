---------------------------- MODULE MCFileTransfer ----------------------------
EXTENDS FileTransfer

\* Options only where the code looks at them: tokens and URLs are GCS's, a stream
\* is an upload of data without multipart, downloads are never multipart.
MCJobs ==
    {j \in AnyJob :
        /\ j.store # "GCS" => ~j.token /\ ~j.numeric
        /\ j.store = "LOCAL_FS" => ~j.encrypted /\ ~j.overwrite /\ ~j.multi
        /\ j.cmd = "DOWNLOAD" => ~j.stream /\ ~j.overwrite /\ ~j.multi
        /\ j.cmd = "UPLOAD" => ~j.encrypted
        /\ j.stream => ~j.multi}
=============================================================================
