----------------------------- MODULE MCOpenClaw -----------------------------
EXTENDS OpenClaw
=============================================================================
