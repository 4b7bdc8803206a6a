---------------------------- MODULE DpdkBringUp ------------------------------
(***************************************************************************)
(* What the DPDK poll mode driver acquires and releases: probe, configure, *)
(* the set-up of queues, start, stop, reset and close.  See Steps for the  *)
(* vocabulary and BringUp for what is asked of it.                         *)
(***************************************************************************)
EXTENDS DpdkHal

\* Memory of a queue.  What a failed set-up frees it may still point to, but the
\* framework has no such queue.
ena_tx_queue_setup == Fn(
    If(Held("configured"), Raise(Return)) \o
    Try(Return) \o
    Get("tx_buffer_info", Return) \o
    Get("empty_tx_reqs", "free_info") \o
    Get("push_buf", "free_both") \o
    Set("configured") \o Set("queues"),
    Label("free_info", Put("tx_buffer_info")) \o
    Raise(Return) \o
    Label("free_both", Put("tx_buffer_info")) \o Put("empty_tx_reqs"))
ena_rx_queue_setup == Fn(
    If(Held("configured"), Raise(Return)) \o
    Try(Return) \o
    Get("rx_buffer_info", Return) \o
    Get("rx_refill_buffer", "free_info") \o
    Get("empty_rx_reqs", "free_both") \o
    Set("configured") \o Set("queues"),
    Label("free_info", Put("rx_buffer_info")) \o
    Raise(Return) \o
    Label("free_both", Put("rx_buffer_info")) \o Put("rx_refill_buffer"))
ena_tx_queue_release == Simple(
    Touch("queues") \o
    PutIfHeld("push_buf") \o PutIfHeld("tx_buffer_info") \o
    PutIfHeld("empty_tx_reqs") \o
    Clear("configured"))
ena_rx_queue_release == Simple(
    Touch("queues") \o
    PutIfHeld("rx_buffer_info") \o PutIfHeld("rx_refill_buffer") \o
    PutIfHeld("empty_rx_reqs") \o
    Clear("configured"))
ena_tx_queue_release_all ==
    Simple(If(Held("nb_queues"), Each(Best("ena_tx_queue_release"))))
ena_rx_queue_release_all ==
    Simple(If(Held("nb_queues"), Each(Rx(Best("ena_rx_queue_release")))))
ena_init_rings == Simple(
    Each(Clear("configured")) \o Each(Rx(Clear("configured"))))

\* Start and stop of a queue.
ena_create_io_queue(rx) == Fn(
    Touch(IF rx THEN "empty_rx_reqs" ELSE "empty_tx_reqs") \o
    Call("ena_com_create_io_queue", Return) \o
    Try("destroy"),
    Label("destroy", Best("ena_com_destroy_io_queue")))
\* There is room for every buffer in a queue just created, so that only the
\* allocation of all of them can fail.
ena_populate_rx_queue == Simple(
    Touch("rx_refill_buffer") \o
    Try(Return) \o
    Touch("empty_rx_reqs") \o Touch("rx_buffer_info") \o Touch("io_sq_mem") \o
    Have("rx_mbufs"))
ena_queue_start(rx) == Fn(
    Touch("configured") \o
    Call(IF rx THEN "ena_create_io_rx_queue" ELSE "ena_create_io_tx_queue", Return) \o
    (IF rx THEN Call("ena_populate_rx_queue", "destroy") ELSE <<>>),
    Label("destroy", Best("ena_com_destroy_io_queue")))
ena_rx_queue_release_bufs == Simple(Touch("rx_buffer_info") \o PutIfHeld("rx_mbufs"))
ena_tx_queue_release_bufs == Simple(Touch("tx_buffer_info"))
ena_queue_stop(rx) == Simple(
    Best("ena_com_destroy_io_queue") \o
    Best(IF rx THEN "ena_rx_queue_release_bufs" ELSE "ena_tx_queue_release_bufs"))
ena_queue_stop_all(rx) == Simple(
    IF rx THEN Each(Rx(If(Held("configured"), Best("ena_rx_queue_stop"))))
    ELSE Each(If(Held("configured"), Best("ena_tx_queue_stop"))))
ena_queue_start_all(rx) ==
    IF rx THEN Fn(
        Each(Rx(If(Held("configured"), Call("ena_rx_queue_start", "err")))),
        Label("err", Below(Rx(If(Held("configured"), Best("ena_rx_queue_stop"))))))
    ELSE Fn(
        Each(If(Held("configured"), Call("ena_tx_queue_start", "err"))),
        Label("err", Below(If(Held("configured"), Best("ena_tx_queue_stop")))))

\* Interrupts of the receive queues.  Where they cannot be told from the others,
\* rc is that of the call before.
ena_setup_rx_intr == Fn(
    If(Without("rxq"), Leave) \o
    Try(Return) \o
    Try("enable_intr") \o
    If(Free("intr_vec"), Get("intr_vec", "enable_intr")) \o
    Get("intr_efd", "free_intr_vec") \o
    Set("rc_is_0") \o
    Try("disable_intr_efd"),
    Label("disable_intr_efd", Put("intr_efd")) \o
    Label("free_intr_vec", Put("intr_vec")) \o
    Label("enable_intr", If(Held("rc_is_0"), Leave)))

\* Receive side scaling.
ena_set_hash_fields == Simple(Call("ena_com_fill_hash_ctrl", Return))
\* With a key of the caller's the fields may stay what the device has.
ena_rss_hash_set(default_allowed) ==
    LET attempt(f) == IF default_allowed THEN CallIfAble(f, Return) ELSE Call(f, Return)
    IN  Simple(
            If(Maybe, Set("rss_key")) \o
            attempt("ena_com_fill_hash_function") \o
            If(Held("rss_key"), CallIfAble("ena_set_hash_fields", Return)) \o
            If(Free("rss_key"), attempt("ena_set_hash_fields")))
ena_rss_configure == Simple(
    If(Free("nb_queues"), Leave) \o
    Call("ena_com_indirect_table_fill_entry", Return) \o
    CallIfAble("ena_com_indirect_table_set", Return) \o
    Call("ena_rss_hash_set_default_allowed", Return))
ena_rss_reta_update == Simple(
    Try(Return) \o
    If(Maybe, Call("ena_com_indirect_table_fill_entry", Return)) \o
    Call("ena_com_indirect_table_set", Return))
ena_rss_reta_query == Simple(
    Try(Return) \o
    Call("ena_com_indirect_table_get", Return))
ena_rss_hash_update == Simple(Call("ena_rss_hash_set", Return))
ena_rss_hash_conf_get == Simple(
    Try(Return) \o
    If(Maybe, Call("ena_get_rss_hash_key", Return)) \o
    CallIfAble("ena_com_get_hash_ctrl", Return))
ena_get_rss_hash_key == Simple(
    If(Free("hash_key"), Deny(Return)) \o Best("ena_com_get_hash_key"))
ena_mtu_set == Simple(Call("ena_com_set_dev_mtu", Return))

\* Start and stop of the device, in the primary process.
ena_start == Fn(
    Call("ena_setup_rx_intr", Return) \o
    Call("ena_rx_queue_start_all", Return) \o
    Call("ena_tx_queue_start_all", "err_start_tx") \o
    If(Maybe, Call("ena_rss_configure", "err_rss_init")) \o
    Have("timer") \o
    Set("RUNNING"),
    Label("err_rss_init", Best("ena_tx_queue_stop_all")) \o
    Label("err_start_tx", Best("ena_rx_queue_stop_all")))
ena_stop == Simple(
    Put("timer") \o
    Best("ena_tx_queue_stop_all") \o
    Best("ena_rx_queue_stop_all") \o
    If(Held("TRIGGER_RESET"), Best("ena_com_dev_reset")) \o
    PutIfHeld("intr_efd") \o PutIfHeld("intr_vec") \o
    Clear("RUNNING"))

\* Probe.
ena_config_host_info == Fn(
    Call("ena_com_allocate_host_info", Return) \o
    Call("ena_com_set_host_attributes", "err"),
    Label("err", Best("ena_com_delete_host_info")))
ena_config_debug_area == Fn(
    Call("ena_com_allocate_debug_area", Return) \o
    Call("ena_com_set_host_attributes", "err"),
    Label("err", Best("ena_com_delete_debug_area")))
ena_device_init == Fn(
    Call("ena_com_mmio_reg_read_request_init", Return) \o
    Call("ena_com_dev_reset", "err_mmio_read_less") \o
    Call("ena_com_validate_version", "err_mmio_read_less") \o
    Best("ena_com_get_dma_width") \o
    Call("ena_com_admin_init", "err_mmio_read_less") \o
    Best("ena_config_host_info") \o
    Call("ena_com_get_dev_attr_feat", "err_admin_init"),
    Label("err_admin_init", Best("ena_com_admin_destroy")) \o
    Label("err_mmio_read_less", Best("ena_com_mmio_reg_read_request_destroy")))
ena_set_queues_placement_policy == Fn(
    If(Maybe, Leave) \o
    Call("ena_com_config_dev_mode", "host"),
    Label("host", Leave))
\* It begins with a memset() of the adapter.
eth_ena_dev_init == Fn(
    Clear("TRIGGER_RESET") \o Clear("CLOSED") \o Clear("RUNNING") \o
    Clear("ADMIN_RUNNING") \o Clear("drv_stats_set") \o Best("ena_init_rings") \o
    Try(Return) \o
    Call("ena_com_allocate_customer_metrics_buffer", Return) \o
    Call("ena_device_init", "err_metrics_delete") \o
    Call("ena_set_queues_placement_policy", Return) \o
    Try("err_device_destroy") \o
    Best("ena_init_rings") \o
    Best("ena_config_debug_area") \o
    Call("ena_com_rss_init", "err_delete_debug_area") \o
    Get("drv_stats", "err_rss_destroy") \o
    Set("drv_stats_set") \o
    If(Without("polls"), Have("intr_callback")) \o
    If(Feature("polls"), Get("alarm", "err_control_path_destroy")) \o
    Best("ena_com_admin_aenq_enable"),
    Label("err_control_path_destroy", Put("drv_stats")) \o
    Label("err_rss_destroy", Best("ena_com_rss_destroy")) \o
    Label("err_delete_debug_area", Best("ena_com_delete_debug_area")) \o
    Label("err_device_destroy", Best("ena_com_delete_host_info")) \o
    Best("ena_com_admin_destroy") \o
    Label("err_metrics_delete", Best("ena_com_delete_customer_metrics_buffer")))

\* Close, which is also what removal does, and reset.
ena_close == Simple(
    If(Held("CLOSED"), Leave) \o
    If(Held("RUNNING"), Best("ena_stop")) \o
    Set("CLOSED") \o
    If(Without("polls"), PutIfHeld("intr_callback")) \o
    If(Feature("polls"), PutIfHeld("alarm")) \o
    Best("ena_rx_queue_release_all") \o
    Best("ena_tx_queue_release_all") \o
    If(Held("drv_stats_set"), Put("drv_stats")) \o
    Clear("drv_stats_set") \o
    Best("ena_com_set_admin_running_state") \o
    Best("ena_com_rss_destroy") \o
    Best("ena_com_delete_debug_area") \o
    Best("ena_com_delete_host_info") \o
    Best("ena_com_abort_admin_commands") \o
    Best("ena_com_wait_for_abort_completion") \o
    Best("ena_com_admin_destroy") \o
    Best("ena_com_mmio_reg_read_request_destroy") \o
    Best("ena_com_delete_customer_metrics_buffer"))
eth_ena_dev_uninit == Simple(Best("ena_close"))
ena_dev_reset == Simple(
    Call("eth_ena_dev_uninit", Return) \o
    Call("eth_ena_dev_init", Return))

\* What the watchdog and the control path find.
ena_trigger_reset == Simple(Set("TRIGGER_RESET"))
check_for_admin_com_state ==
    Simple(If(Free("ADMIN_RUNNING"), Best("ena_trigger_reset")))
ena_configure_aenq == Simple(
    Try(Return) \o
    Call("ena_com_set_aenq_config", Return))
ena_dev_configure == Simple(
    Clear("RUNNING") \o Clear("CLOSED") \o
    Call("ena_configure_aenq", Return))

\* The framework (outside the repository): it knows the number of queues from the
\* first configuration on, gives a queue that is set up again back first, and
\* stops a port that it resets or closes.
rte_eth_dev_configure == Simple(
    Set("nb_queues") \o Call("ena_dev_configure", Return))
rte_eth_tx_queue_setup == Simple(
    If(Held("queues"), Best("ena_tx_queue_release")) \o
    Clear("queues") \o
    Call("ena_tx_queue_setup", Return))
rte_eth_rx_queue_setup == Simple(
    If(Held("queues"), Best("ena_rx_queue_release")) \o
    Clear("queues") \o
    Call("ena_rx_queue_setup", Return))
rte_eth_queues_setup == Simple(
    Each(Rx(Call("rte_eth_rx_queue_setup", Return))) \o
    Each(Call("rte_eth_tx_queue_setup", Return)))
rte_eth_dev_reset == Simple(
    If(Held("RUNNING"), Best("ena_stop")) \o
    Call("ena_dev_reset", Return))
rte_eth_dev_close == Simple(Best("ena_close"))

\* The code above by name.
DpdkOwnCode ==
    [ena_tx_queue_setup |-> ena_tx_queue_setup,
     ena_rx_queue_setup |-> ena_rx_queue_setup,
     ena_tx_queue_release |-> ena_tx_queue_release,
     ena_rx_queue_release |-> ena_rx_queue_release,
     ena_tx_queue_release_all |-> ena_tx_queue_release_all,
     ena_rx_queue_release_all |-> ena_rx_queue_release_all,
     ena_init_rings |-> ena_init_rings,
     ena_create_io_rx_queue |-> ena_create_io_queue(TRUE),
     ena_create_io_tx_queue |-> ena_create_io_queue(FALSE),
     ena_populate_rx_queue |-> ena_populate_rx_queue,
     ena_rx_queue_start |-> ena_queue_start(TRUE),
     ena_tx_queue_start |-> ena_queue_start(FALSE),
     ena_rx_queue_release_bufs |-> ena_rx_queue_release_bufs,
     ena_tx_queue_release_bufs |-> ena_tx_queue_release_bufs,
     ena_rx_queue_stop |-> ena_queue_stop(TRUE),
     ena_tx_queue_stop |-> ena_queue_stop(FALSE),
     ena_rx_queue_stop_all |-> ena_queue_stop_all(TRUE),
     ena_tx_queue_stop_all |-> ena_queue_stop_all(FALSE),
     ena_rx_queue_start_all |-> ena_queue_start_all(TRUE),
     ena_tx_queue_start_all |-> ena_queue_start_all(FALSE),
     ena_setup_rx_intr |-> ena_setup_rx_intr,
     ena_set_hash_fields |-> ena_set_hash_fields,
     ena_rss_hash_set |-> ena_rss_hash_set(FALSE),
     ena_rss_hash_set_default_allowed |-> ena_rss_hash_set(TRUE),
     ena_rss_configure |-> ena_rss_configure,
     ena_rss_reta_update |-> ena_rss_reta_update, ena_rss_reta_query |-> ena_rss_reta_query,
     ena_rss_hash_conf_get |-> ena_rss_hash_conf_get,
     ena_get_rss_hash_key |-> ena_get_rss_hash_key,
     ena_rss_hash_update |-> ena_rss_hash_update, ena_mtu_set |-> ena_mtu_set,
     ena_start |-> ena_start, ena_stop |-> ena_stop,
     ena_config_host_info |-> ena_config_host_info,
     ena_config_debug_area |-> ena_config_debug_area,
     ena_device_init |-> ena_device_init,
     ena_set_queues_placement_policy |-> ena_set_queues_placement_policy,
     eth_ena_dev_init |-> eth_ena_dev_init, ena_close |-> ena_close,
     eth_ena_dev_uninit |-> eth_ena_dev_uninit, ena_dev_reset |-> ena_dev_reset,
     ena_trigger_reset |-> ena_trigger_reset,
     check_for_admin_com_state |-> check_for_admin_com_state,
     ena_configure_aenq |-> ena_configure_aenq,
     ena_dev_configure |-> ena_dev_configure,
     rte_eth_dev_configure |-> rte_eth_dev_configure,
     rte_eth_tx_queue_setup |-> rte_eth_tx_queue_setup,
     rte_eth_rx_queue_setup |-> rte_eth_rx_queue_setup,
     rte_eth_queues_setup |-> rte_eth_queues_setup,
     rte_eth_dev_reset |-> rte_eth_dev_reset, rte_eth_dev_close |-> rte_eth_dev_close]

DpdkCode == DpdkHalCode @@ DpdkOwnCode

\* What the driver owns in each phase, and what it may own besides.  Ready: all
\* queues are set up.
DpdkProbed == {"customer_metrics", "mmio_read", "comp_ctx", "admin_sq", "admin_cq",
    "aenq", "q_lock", "drv_stats", "rss_ind_tbl", "host_rss_ind_tbl", "hash_ctrl"}
DpdkExtra == {"host_info", "debug_area", "hash_key", "intr_callback", "alarm",
    "aenq_armed"}
DpdkRings == {"tx_buffer_info", "empty_tx_reqs", "push_buf", "rx_buffer_info",
    "rx_refill_buffer", "empty_rx_reqs"}
DpdkIntr == {"intr_vec", "intr_efd"}
DpdkOwns ==
    [absent |-> {}, init |-> DpdkProbed, configured |-> DpdkProbed,
     ready |-> DpdkProbed \cup DpdkRings,
     running |-> DpdkProbed \cup DpdkRings \cup {"timer", "io_sq_mem", "io_cq_mem",
        "device_sq", "device_cq", "rx_mbufs", "aenq_armed"},
     broken |-> {}]
DpdkMayOwn ==
    [absent |-> {"mmio_read", "host_info", "aenq_armed"} \cup DpdkIntr,
     init |-> DpdkExtra \cup DpdkIntr,
     configured |-> DpdkExtra \cup DpdkRings \cup DpdkIntr, ready |-> DpdkExtra \cup DpdkIntr,
     running |-> DpdkExtra \cup DpdkIntr, 
     broken |-> {"mmio_read", "host_info", "aenq_armed"} \cup DpdkIntr]
DpdkLive == {"init", "configured", "ready", "running"}
DpdkEntries ==
    {Entry("eth_ena_dev_init", {"absent"}, "init", "absent"),
     Entry("rte_eth_dev_configure", {"init"}, "configured", "configured"),
     Verb("rte_eth_dev_configure", "ready", {}),
     Entry("rte_eth_queues_setup", {"configured", "ready"}, "ready", "configured"),
     Entry("ena_start", {"ready"}, "running", "ready"),
     Entry("ena_stop", {"running"}, "ready", "ready"),
     Entry("rte_eth_dev_reset", DpdkLive \cup {"broken"}, "init", "broken"),
     Entry("rte_eth_dev_close", DpdkLive \cup {"broken"}, "absent", "absent"),
     Entry("eth_ena_dev_uninit", DpdkLive \cup {"broken"}, "absent", "absent"),
     Verb("check_for_admin_com_state", "running", {}), Verb("ena_trigger_reset", "running", {})} \cup
    {Verb(f, p, {}) : f \in {"ena_rss_reta_update", "ena_rss_reta_query",
            "ena_rss_hash_update", "ena_rss_hash_conf_get", "ena_mtu_set"},
                     p \in {"ready", "running"}}

\* What the code is known to get wrong (see the README).
DpdkCloses == {"rte_eth_dev_close", "eth_ena_dev_uninit", "rte_eth_dev_reset"}
DpdkExcused ==
    DpdkCloses \X {"queues", "aenq_armed", "drv_stats", "q_lock", "mmio_read"}
    \cup {"absent", "broken"} \X {"aenq_armed"}
    \cup {"ena_start"} \X {"intr_efd"}

Dpdk ==
    [entries |-> DpdkEntries,
     phases |-> DOMAIN DpdkOwns, owns |-> DpdkOwns, mayOwn |-> DpdkMayOwn,
     features |-> {{}, {"rxq", "polls"}},
     flags |-> H!HalFlags \cup {"TRIGGER_RESET", "RUNNING", "CLOSED", "configured", "queues",
               "nb_queues", "drv_stats_set", "rc_is_0", "rss_key"},
     locals |-> {"rc_is_0", "rss_key"},
     up |-> "RUNNING", alive |-> "RUNNING",
     accepts |-> H!HalAccepts, running |-> "ADMIN_RUNNING",
     onDevice |-> H!HalOnDevice,
     base |-> H!HalBase @@ [rx_mbufs |-> {{"rx_buffer_info"}}],
     objects |->
        {{"comp_ctx", "admin_sq", "admin_cq", "aenq"}, {"rss_ind_tbl", "host_rss_ind_tbl", "hash_ctrl"}},
     givenUp |-> {"device_sq", "device_cq"},
     excused |-> DpdkExcused]
=============================================================================
