------------------------------- MODULE MCRoutes -------------------------------
\* Routes for TLC; the configurations give all constants.
EXTENDS Routes
=============================================================================
