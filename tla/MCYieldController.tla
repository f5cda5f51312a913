-------------------------- MODULE MCYieldController --------------------------
EXTENDS YieldController

MCArms == <<"ctrl", "f100", "f200">>
MCNames == <<"control", "ctrl", "f100", "f200">>
MCFirstEnd == <<4, 12, 20>>
MCBucketOf == <<>>
==============================================================================
