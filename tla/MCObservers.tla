---------------------------- MODULE MCObservers ------------------------------
(* Observers as TLC checks it: with liveness, so without symmetry.  Between     *)
(* them the deployments hold every service that migrates a schema, some with     *)
(* one that waits for them.                                                       *)
EXTENDS Observers

MCDeployments ==
    { {"product_service", "order_service"}, {"shipping_service", "fulfillment_service"},
      {"accounting_service", "hr_payroll_service"}, {"api_gateway", "website"},
      {"customer_service"}, {"supplier_service"}, {"inventory_service"},
      {"payment_service"}, {"tax_service"}, {"notification_service"} }
=============================================================================
