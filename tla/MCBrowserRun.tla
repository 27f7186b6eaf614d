---------------------------- MODULE MCBrowserRun ----------------------------
(***************************************************************************)
(* BrowserRun for TLC: a text of each kind that Classify tells apart, and  *)
(* one of two kinds.                                                       *)
(***************************************************************************)
EXTENDS BrowserRun

MCTexts == {{}, {"no_record"}, Blank, {"busy", "no_record"}, {"exception"}, {"captcha"}}
=============================================================================
