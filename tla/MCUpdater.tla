----------------------------- MODULE MCUpdater -----------------------------
\* Three signed manifests over three versions, of which the first two become
\* ready and the third never does.
EXTENDS Updater

=============================================================================
