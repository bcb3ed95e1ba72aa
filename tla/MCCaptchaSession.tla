-------------------------- MODULE MCCaptchaSession --------------------------
\* The instance of CaptchaSession for TLC has no parameters of its own: the portal
\* answers with any of the 32 pages.
EXTENDS CaptchaSession
=============================================================================
