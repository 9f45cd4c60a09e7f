------------------------------ MODULE MCSignIn ------------------------------
EXTENDS SignIn, TLC

MCNames == {"own", "other"}
MCIPs   == {"home", "away"}
=============================================================================
