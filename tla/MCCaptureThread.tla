--------------------------- MODULE MCCaptureThread ---------------------------
\* The capture thread under the clients and the bounds of CaptureThread.cfg:
\* every operation of a capture, each at least twice.
EXTENDS CaptureThread
=============================================================================
