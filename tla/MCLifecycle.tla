----------------------------- MODULE MCLifecycle ----------------------------
EXTENDS Lifecycle
=============================================================================
