---- MODULE MCLifespan ----
EXTENDS Lifespan
CONSTANTS owner1, binding1, hourly, daily, typo
====
